---------------------------- MODULE Spec2Model ----------------------------
(***************************************************************************)
(* A model of the JSON -> Excel report pipeline (src/json_to_excel.js):    *)
(* the duration codec, the month/unit gap filler, the rule-dispatched      *)
(* aggregator, the pivot matrix builder, and the per-directory workbook    *)
(* loop with its sheet naming.                                            *)
(*                                                                         *)
(* Representation.                                                         *)
(*  - A JavaScript string is a sequence of one-character strings, so that  *)
(*    length, substring, startsWith, includes, split and the relational    *)
(*    operators are computed on the characters.                            *)
(*  - A JavaScript number is an integer count of hundredths (fixed point   *)
(*    with two decimals): 3 is 300, 95.5 is 9550.  A quotient is never     *)
(*    stored: the two consumers of a quotient, formatDuration and          *)
(*    toFixed(2), take numerator and denominator.                          *)
(*  - A JavaScript value is a record [t, n, s] with t the type tag.        *)
(*  - A JavaScript object (a report row) is the sequence of its own       *)
(*    (key, value) entries in insertion order.                             *)
(***************************************************************************)
EXTENDS Integers, Sequences, FiniteSets, TLC

----------------------------------------------------------------------------
(* Characters and strings *)

\* The characters of the vocabulary in ascending UTF-16 code unit order.
CharOrder ==
    << " ", "*", "-", ".", "/",
       "0", "1", "2", "3", "4", "5", "6", "7", "8", "9", ":", "?",
       "A", "B", "C", "D", "E", "F", "G", "H", "I", "J", "K", "L", "M",
       "N", "O", "P", "Q", "R", "S", "T", "U", "V", "W", "X", "Y", "Z",
       "[", "\\", "]", "_",
       "a", "b", "c", "d", "e", "f", "g", "h", "i", "j", "k", "l", "m",
       "n", "o", "p", "q", "r", "s", "t", "u", "v", "w", "x", "y", "z" >>

CharCode(c) == CHOOSE i \in 1..Len(CharOrder) : CharOrder[i] = c

Digits == << "0", "1", "2", "3", "4", "5", "6", "7", "8", "9" >>

IsDigit(c) == \E i \in 1..Len(Digits) : Digits[i] = c

DigitVal(c) == (CHOOSE i \in 1..Len(Digits) : Digits[i] = c) - 1

LowerCaseLetters ==
    << "a", "b", "c", "d", "e", "f", "g", "h", "i", "j", "k", "l", "m",
       "n", "o", "p", "q", "r", "s", "t", "u", "v", "w", "x", "y", "z" >>

UpperCaseLetters ==
    << "A", "B", "C", "D", "E", "F", "G", "H", "I", "J", "K", "L", "M",
       "N", "O", "P", "Q", "R", "S", "T", "U", "V", "W", "X", "Y", "Z" >>

UpperChar(c) ==
    IF \E i \in 1..Len(LowerCaseLetters) : LowerCaseLetters[i] = c
    THEN UpperCaseLetters[CHOOSE i \in 1..Len(LowerCaseLetters) : LowerCaseLetters[i] = c]
    ELSE c

LowerChar(c) ==
    IF \E i \in 1..Len(UpperCaseLetters) : UpperCaseLetters[i] = c
    THEN LowerCaseLetters[CHOOSE i \in 1..Len(UpperCaseLetters) : UpperCaseLetters[i] = c]
    ELSE c

\* String.prototype.toUpperCase
ToUpperCase(s) == [i \in 1..Len(s) |-> UpperChar(s[i])]

\* String.prototype.toLowerCase
ToLowerCase(s) == [i \in 1..Len(s) |-> LowerChar(s[i])]

\* String.prototype.substring(0, n)
Substring0(s, n) == IF Len(s) > n THEN SubSeq(s, 1, n) ELSE s

\* String.prototype.startsWith
StartsWith(s, p) == Len(p) <= Len(s) /\ SubSeq(s, 1, Len(p)) = p

\* String.prototype.endsWith
EndsWith(s, p) == Len(p) <= Len(s) /\ SubSeq(s, Len(s) - Len(p) + 1, Len(s)) = p

\* String.prototype.includes
Includes(s, p) ==
    \E i \in 1..(Len(s) - Len(p) + 1) : SubSeq(s, i, i + Len(p) - 1) = p

\* a < b on two strings: comparison by code units, a proper prefix first.
StrLess(a, b) ==
    \E i \in 1..Len(b) :
        /\ \A j \in 1..(i - 1) : j <= Len(a) /\ a[j] = b[j]
        /\ \/ i = Len(a) + 1
           \/ i <= Len(a) /\ CharCode(a[i]) < CharCode(b[i])

\* The decimal digits of a non-negative integer (Number.prototype.toString).
RECURSIVE IntToStr(_)
IntToStr(n) ==
    IF n < 10 THEN << Digits[n + 1] >>
    ELSE Append(IntToStr(n \div 10), Digits[(n % 10) + 1])

\* String.prototype.padStart(2, "0") of a non-negative integer's digits
PadStart2(n) == IF n < 10 THEN << "0" >> \o IntToStr(n) ELSE IntToStr(n)

\* String.prototype.split(sep) for a one-character separator
RECURSIVE Split(_, _)
Split(s, sep) ==
    IF \E i \in 1..Len(s) : s[i] = sep
    THEN LET i == CHOOSE k \in 1..Len(s) :
                      s[k] = sep /\ \A j \in 1..(k - 1) : s[j] # sep
         IN  << SubSeq(s, 1, i - 1) >> \o Split(SubSeq(s, i + 1, Len(s)), sep)
    ELSE << s >>

\* The length of the longest prefix of s made of digits.
RECURSIVE DigitPrefixLen(_)
DigitPrefixLen(s) ==
    IF s # << >> /\ IsDigit(s[1]) THEN 1 + DigitPrefixLen(Tail(s)) ELSE 0

\* The value of a string of digits (0 for the empty string).
RECURSIVE DigitsValue(_)
DigitsValue(s) ==
    IF s = << >> THEN 0
    ELSE DigitsValue(SubSeq(s, 1, Len(s) - 1)) * 10 + DigitVal(s[Len(s)])

\* s without its leading and trailing spaces (the StrWhiteSpace of ToNumber).
RECURSIVE Trim(_)
Trim(s) ==
    IF s # << >> /\ s[1] = " " THEN Trim(Tail(s))
    ELSE IF s # << >> /\ s[Len(s)] = " " THEN Trim(SubSeq(s, 1, Len(s) - 1))
    ELSE s

----------------------------------------------------------------------------
(* JavaScript values *)

\* A number, given in hundredths.
Num(c) == [t |-> "number", n |-> c, s |-> << >>]

\* An integer number.
Int2Num(i) == Num(i * 100)

Str(chars) == [t |-> "string", n |-> 0, s |-> chars]

Null == [t |-> "null", n |-> 0, s |-> << >>]

Undefined == [t |-> "undefined", n |-> 0, s |-> << >>]

\* ToBoolean: what `if (v)`, `v || d` and `!v` test.
Truthy(v) ==
    CASE v.t = "number" -> v.n # 0
      [] v.t = "string" -> v.s # << >>
      [] OTHER -> FALSE

\* The sign, integer digits and fraction digits of the longest prefix of s
\* that is a decimal literal ([+-] digits [. digits]); ok is FALSE when s
\* starts with no such literal.  rest is what follows the literal.
DecimalPrefix(s) ==
    LET neg  == s # << >> /\ s[1] = "-"
        sgn  == IF s # << >> /\ s[1] \in {"-", "+"} THEN 1 ELSE 0
        body == SubSeq(s, sgn + 1, Len(s))
        il   == DigitPrefixLen(body)
        hasDot == Len(body) > il /\ body[il + 1] = "."
        frac == IF hasDot THEN SubSeq(body, il + 2, Len(body)) ELSE << >>
        fl   == DigitPrefixLen(frac)
        used == IF hasDot /\ (il > 0 \/ fl > 0) THEN il + 1 + fl ELSE il
    IN  [ok   |-> il > 0 \/ (hasDot /\ fl > 0),
         neg  |-> neg,
         int  |-> DigitsValue(SubSeq(body, 1, il)),
         frac |-> SubSeq(frac, 1, fl),
         rest |-> SubSeq(body, used + 1, Len(body))]

\* The hundredths of a parsed literal; fraction digits past the second are
\* dropped (the strings of the model carry at most two).
Hundredths(d) ==
    LET f2 == SubSeq(d.frac \o << "0", "0" >>, 1, 2)
        mag == d.int * 100 + DigitsValue(f2)
    IN  IF d.neg THEN 0 - mag ELSE mag

\* Number(v) is NaN.  A string converts when, trimmed, it is empty or is
\* entirely a decimal literal (the vocabulary holds no exponent, hexadecimal
\* or Infinity spelling).
NumberIsNaN(v) ==
    CASE v.t = "number" -> FALSE
      [] v.t = "null" -> FALSE
      [] v.t = "undefined" -> TRUE
      [] v.t = "string" ->
            LET tr == Trim(v.s)
                d  == DecimalPrefix(tr)
            IN  tr # << >> /\ ~(d.ok /\ d.rest = << >>)

\* Number(v) in hundredths, for a v that is not NaN.
NumberOf(v) ==
    CASE v.t = "number" -> v.n
      [] v.t = "string" ->
            IF Trim(v.s) = << >> THEN 0 ELSE Hundredths(DecimalPrefix(Trim(v.s)))
      [] OTHER -> 0

\* Number(v) || 0
NumberOr0(v) == IF NumberIsNaN(v) THEN 0 ELSE NumberOf(v)

\* Leading spaces removed (parseInt and parseFloat skip them).
RECURSIVE TrimStart(_)
TrimStart(s) == IF s # << >> /\ s[1] = " " THEN TrimStart(Tail(s)) ELSE s

\* parseInt(s, 10) || 0 of a string: the integer value, in units.
ParseIntOr0(s) ==
    LET tr  == TrimStart(s)
        neg == tr # << >> /\ tr[1] = "-"
        sgn == IF tr # << >> /\ tr[1] \in {"-", "+"} THEN 1 ELSE 0
        body == SubSeq(tr, sgn + 1, Len(tr))
        v   == DigitsValue(SubSeq(body, 1, DigitPrefixLen(body)))
    IN  IF neg THEN 0 - v ELSE v

\* parseFloat(s) is NaN, for a string s
ParseFloatIsNaN(s) == ~DecimalPrefix(TrimStart(s)).ok

\* parseFloat(s) in hundredths, for a string s that parses
ParseFloatOf(s) == Hundredths(DecimalPrefix(TrimStart(s)))

\* parseFloat(v) || 0 of a value, in hundredths (a number argument is
\* converted to its text and parsed back: the same number).
ParseFloatOr0(v) ==
    CASE v.t = "number" -> v.n
      [] v.t = "string" -> IF ParseFloatIsNaN(v.s) THEN 0 ELSE ParseFloatOf(v.s)
      [] OTHER -> 0

----------------------------------------------------------------------------
(* Duration codec *)

\* parseDuration(durationStr): seconds, in hundredths.
parseDuration(v) ==
    IF ~Truthy(v) \/ v.t # "string" THEN 0
    ELSE LET parts == Split(v.s, ":")
         IN  IF Len(parts) < 2 THEN 0
             ELSE LET hours   == ParseIntOr0(parts[1])
                      minutes == ParseIntOr0(parts[2])
                      seconds == IF Len(parts) >= 3
                                 THEN ParseFloatOr0(Str(parts[3]))
                                 ELSE 0
                  IN  (hours * 3600 + minutes * 60) * 100 + seconds

\* formatDurationQ, were the hours those of a clock: wrapped at 24.
formatDurationQ24(num, den) ==
    LET whole     == num \div den
        hours     == (whole \div 3600) % 24
        remainder == whole % 3600
        minutes   == remainder \div 60
        seconds   == remainder % 60
    IN  IntToStr(hours) \o << ":" >> \o PadStart2(minutes)
                        \o << ":" >> \o PadStart2(seconds)

\* formatDuration(num / den) for num >= 0, den > 0: the three components
\* are floors, so they are those of the whole seconds of the quotient.
formatDurationQ(num, den) ==
    LET whole     == num \div den
        hours     == whole \div 3600
        remainder == whole % 3600
        minutes   == remainder \div 60
        seconds   == remainder % 60
    IN  IntToStr(hours) \o << ":" >> \o PadStart2(minutes)
                        \o << ":" >> \o PadStart2(seconds)

\* formatDuration(totalSeconds), totalSeconds in hundredths.
formatDuration(c) == formatDurationQ(c, 100)

\* (num / den).toFixed(2) for num >= 0, den > 0: the nearest hundredth, the
\* larger one on a tie.
toFixed2Q(num, den) ==
    LET q == (num \div den) * 100 + (2 * 100 * (num % den) + den) \div (2 * den)
    IN  IntToStr(q \div 100) \o << "." >> \o PadStart2(q % 100)

----------------------------------------------------------------------------
(* The string literals of the source *)

S_Mes_Anio == << "M", "e", "s", "_", "A", "n", "i", "o" >>

S_Nombre_Unidad ==
    << "N", "o", "m", "b", "r", "e", "_", "U", "n", "i", "d", "a", "d" >>

S_Cantidad_Tickets ==
    << "C", "a", "n", "t", "i", "d", "a", "d", "_", "T", "i", "c", "k",
       "e", "t", "s" >>

S_Cantidad_Total_Tickets_Glitch ==
    << "C", "a", "n", "t", "i", "d", "a", "d", "_", "T", "o", "t", "a",
       "l", "_", "T", "i", "c", "k", "e", "t", "s", "_", "G", "l", "i",
       "t", "c", "h" >>

S_Total_Tickets_Mantenimiento ==
    << "T", "o", "t", "a", "l", "_", "T", "i", "c", "k", "e", "t", "s",
       "_", "M", "a", "n", "t", "e", "n", "i", "m", "i", "e", "n", "t",
       "o" >>

S_Total_Tickets_TI ==
    << "T", "o", "t", "a", "l", "_", "T", "i", "c", "k", "e", "t", "s",
       "_", "T", "I" >>

S_Total_Tickets_LostAndFound ==
    << "T", "o", "t", "a", "l", "_", "T", "i", "c", "k", "e", "t", "s",
       "_", "L", "o", "s", "t", "A", "n", "d", "F", "o", "u", "n", "d" >>

S_Total_Tiempo_Productivo ==
    << "T", "o", "t", "a", "l", "_", "T", "i", "e", "m", "p", "o", "_",
       "P", "r", "o", "d", "u", "c", "t", "i", "v", "o" >>

S_Promedio_Tiempo_Productivo ==
    << "P", "r", "o", "m", "e", "d", "i", "o", "_", "T", "i", "e", "m",
       "p", "o", "_", "P", "r", "o", "d", "u", "c", "t", "i", "v", "o" >>

S_Promedio_Tiempo_Estimado ==
    << "P", "r", "o", "m", "e", "d", "i", "o", "_", "T", "i", "e", "m",
       "p", "o", "_", "E", "s", "t", "i", "m", "a", "d", "o" >>

S_Porcentaje_Cumplimiento ==
    << "P", "o", "r", "c", "e", "n", "t", "a", "j", "e", "_", "C", "u",
       "m", "p", "l", "i", "m", "i", "e", "n", "t", "o" >>

S_insertId == << "i", "n", "s", "e", "r", "t", "I", "d" >>

S_affectedRows ==
    << "a", "f", "f", "e", "c", "t", "e", "d", "R", "o", "w", "s" >>

S_Enero_2025 == << "E", "n", "e", "r", "o", " ", "2", "0", "2", "5" >>

S_Febrero_2025 ==
    << "F", "e", "b", "r", "e", "r", "o", " ", "2", "0", "2", "5" >>

S_Marzo_2025 == << "M", "a", "r", "z", "o", " ", "2", "0", "2", "5" >>

S_Abril_2025 == << "A", "b", "r", "i", "l", " ", "2", "0", "2", "5" >>

S_Mayo_2025 == << "M", "a", "y", "o", " ", "2", "0", "2", "5" >>

S_Junio_2025 == << "J", "u", "n", "i", "o", " ", "2", "0", "2", "5" >>

S_Julio_2025 == << "J", "u", "l", "i", "o", " ", "2", "0", "2", "5" >>

S_Agosto_2025 == << "A", "g", "o", "s", "t", "o", " ", "2", "0", "2", "5" >>

S_Septiembre_2025 ==
    << "S", "e", "p", "t", "i", "e", "m", "b", "r", "e", " ", "2", "0",
       "2", "5" >>

S_Octubre_2025 ==
    << "O", "c", "t", "u", "b", "r", "e", " ", "2", "0", "2", "5" >>

S_Noviembre_2025 ==
    << "N", "o", "v", "i", "e", "m", "b", "r", "e", " ", "2", "0", "2",
       "5" >>

S_Diciembre_2025 ==
    << "D", "i", "c", "i", "e", "m", "b", "r", "e", " ", "2", "0", "2",
       "5" >>

MONTHS_2025 ==
    << S_Enero_2025, S_Febrero_2025, S_Marzo_2025,
       S_Abril_2025, S_Mayo_2025, S_Junio_2025,
       S_Julio_2025, S_Agosto_2025, S_Septiembre_2025,
       S_Octubre_2025, S_Noviembre_2025, S_Diciembre_2025 >>

S_Palacio_Mundo_Imperial ==
    << "P", "a", "l", "a", "c", "i", "o", " ", "M", "u", "n", "d", "o",
       " ", "I", "m", "p", "e", "r", "i", "a", "l" >>

S_Princess_Mundo_Imperial ==
    << "P", "r", "i", "n", "c", "e", "s", "s", " ", "M", "u", "n", "d",
       "o", " ", "I", "m", "p", "e", "r", "i", "a", "l" >>

S_Pierre_Mundo_Imperial ==
    << "P", "i", "e", "r", "r", "e", " ", "M", "u", "n", "d", "o", " ",
       "I", "m", "p", "e", "r", "i", "a", "l" >>

UNIT_ORDER ==
    << S_Palacio_Mundo_Imperial, S_Princess_Mundo_Imperial,
       S_Pierre_Mundo_Imperial >>

S_Acumulado_2025 ==
    << "A", "c", "u", "m", "u", "l", "a", "d", "o", " ", "2", "0", "2",
       "5" >>

S_NA == << "N", "/", "A" >>

S_Cantidad == << "C", "a", "n", "t", "i", "d", "a", "d" >>

S_Total_Tickets ==
    << "T", "o", "t", "a", "l", "_", "T", "i", "c", "k", "e", "t", "s" >>

S_Tiempo == << "T", "i", "e", "m", "p", "o" >>

S_Porcentaje == << "P", "o", "r", "c", "e", "n", "t", "a", "j", "e" >>

S_Promedio == << "P", "r", "o", "m", "e", "d", "i", "o" >>

S_Mes == << "M", "e", "s" >>

S_TOTAL == << "T", "O", "T", "A", "L" >>

S_MANTENIMIENTO ==
    << "M", "A", "N", "T", "E", "N", "I", "M", "I", "E", "N", "T", "O" >>

S_TECNOLOGIA == << "T", "E", "C", "N", "O", "L", "O", "G", "I", "A" >>

S_LOST_AND_FOUND ==
    << "L", "O", "S", "T", "_", "A", "N", "D", "_", "F", "O", "U", "N",
       "D" >>

S_GLITCHES == << "G", "L", "I", "T", "C", "H", "E", "S" >>

S_TICKETS_GENERAL ==
    << "T", "I", "C", "K", "E", "T", "S", "_", "G", "E", "N", "E", "R",
       "A", "L" >>

S_DATOS_GENERALES_UNIDAD_DEPARTAMENTO ==
    << "D", "A", "T", "O", "S", "_", "G", "E", "N", "E", "R", "A", "L",
       "E", "S", "_", "U", "N", "I", "D", "A", "D", "_", "D", "E", "P",
       "A", "R", "T", "A", "M", "E", "N", "T", "O" >>

S_DATOS_GENERALES ==
    << "D", "A", "T", "O", "S", "_", "G", "E", "N", "E", "R", "A", "L",
       "E", "S" >>

S_ETIQUETAS_UNIDAD_DEPARTAMENTO ==
    << "E", "T", "I", "Q", "U", "E", "T", "A", "S", "_", "U", "N", "I",
       "D", "A", "D", "_", "D", "E", "P", "A", "R", "T", "A", "M", "E",
       "N", "T", "O" >>

S_dot_json == << ".", "j", "s", "o", "n" >>

S_00_00_00 == << "0", "0", ":", "0", "0", ":", "0", "0" >>

S_0_00_00 == << "0", ":", "0", "0", ":", "0", "0" >>

S_0_00 == << "0", ".", "0", "0" >>

S_pivot_title == << "p", "i", "v", "o", "t", "_", "t", "i", "t", "l", "e" >>

S_COMPARATIVA ==
    << "C", "O", "M", "P", "A", "R", "A", "T", "I", "V", "A", ":", " " >>

S_undefined == << "u", "n", "d", "e", "f", "i", "n", "e", "d" >>

S_null == << "n", "u", "l", "l" >>

----------------------------------------------------------------------------
(* Objects: a row is the sequence of its own entries [k, v] *)

\* Object.keys(row)
Keys(row) == [i \in 1..Len(row) |-> row[i].k]

\* row.hasOwnProperty(key)
HasOwn(row, key) == \E i \in 1..Len(row) : row[i].k = key

\* row[key]: undefined when the row has no such key
Get(row, key) ==
    IF HasOwn(row, key)
    THEN row[CHOOSE i \in 1..Len(row) : row[i].k = key].v
    ELSE Undefined

\* row[key] = v: an existing key keeps its place, a new key goes last
Put(row, key, v) ==
    IF HasOwn(row, key)
    THEN [i \in 1..Len(row) |-> IF row[i].k = key THEN [k |-> key, v |-> v] ELSE row[i]]
    ELSE Append(row, [k |-> key, v |-> v])

\* The elements of a sequence of values, each once, in first-occurrence
\* order: [...new Set(seq)]
RECURSIVE Unique(_)
Unique(seq) ==
    IF seq = << >> THEN << >>
    ELSE LET init == Unique(SubSeq(seq, 1, Len(seq) - 1))
             last == seq[Len(seq)]
         IN  IF \E i \in 1..Len(init) : init[i] = last THEN init
             ELSE Append(init, last)

\* a < b on two values: two strings by code units, otherwise as numbers
\* (FALSE when either is NaN).
JsLess(a, b) ==
    IF a.t = "string" /\ b.t = "string" THEN StrLess(a.s, b.s)
    ELSE ~NumberIsNaN(a) /\ ~NumberIsNaN(b) /\ NumberOf(a) < NumberOf(b)

----------------------------------------------------------------------------
(* Month/unit gap filler *)

\* monthIndex[v]: the 0-based index of a canonical label, -1 for undefined
\* (a value that is not the text of a canonical label).
monthIndex(v) ==
    IF v.t = "string" /\ \E i \in 1..Len(MONTHS_2025) : MONTHS_2025[i] = v.s
    THEN (CHOOSE i \in 1..Len(MONTHS_2025) : MONTHS_2025[i] = v.s) - 1
    ELSE -1

\* zeroValue, were the duration and percentage names tested before the
\* counting prefixes.
zeroValueTiempoFirst(key, month, unit) ==
    IF key = S_Mes_Anio THEN Str(month)
    ELSE IF key = S_Nombre_Unidad THEN unit
    ELSE IF Includes(key, S_Tiempo) THEN Str(S_00_00_00)
    ELSE IF Includes(key, S_Porcentaje) THEN Str(S_0_00)
    ELSE Int2Num(0)

\* The value a synthesized row gives to column `key`.
zeroValue(key, month, unit) ==
    IF key = S_Mes_Anio THEN Str(month)
    ELSE IF key = S_Nombre_Unidad THEN unit
    ELSE IF \/ StartsWith(key, S_Cantidad)
            \/ StartsWith(key, S_Total_Tickets)
            \/ key = S_insertId
            \/ key = S_affectedRows
         THEN Int2Num(0)
    ELSE IF Includes(key, S_Tiempo) THEN Str(S_00_00_00)
    ELSE IF Includes(key, S_Porcentaje) THEN Str(S_0_00)
    ELSE Int2Num(0)

zeroRow(keys, month, unit) ==
    [i \in 1..Len(keys) |-> [k |-> keys[i], v |-> zeroValue(keys[i], month, unit)]]

\* monthRows, were every existing row of the month pushed.
monthRowsAll(unitRows, keys, month, unit) ==
    IF \E i \in 1..Len(unitRows) : Get(unitRows[i], S_Mes_Anio) = Str(month)
    THEN SelectSeq(unitRows, LAMBDA r : Get(r, S_Mes_Anio) = Str(month))
    ELSE << zeroRow(keys, month, unit) >>

\* monthRows, were the last existing row of the month the one pushed.
monthRowsLast(unitRows, keys, month, unit) ==
    IF \E i \in 1..Len(unitRows) : Get(unitRows[i], S_Mes_Anio) = Str(month)
    THEN << unitRows[CHOOSE i \in 1..Len(unitRows) :
                        /\ Get(unitRows[i], S_Mes_Anio) = Str(month)
                        /\ \A j \in (i + 1)..Len(unitRows) :
                              Get(unitRows[j], S_Mes_Anio) # Str(month)] >>
    ELSE << zeroRow(keys, month, unit) >>

\* The rows pushed for one unit and one canonical month: the first existing
\* row of that unit and month, or a zero row.
monthRows(unitRows, keys, month, unit) ==
    IF \E i \in 1..Len(unitRows) : Get(unitRows[i], S_Mes_Anio) = Str(month)
    THEN << unitRows[CHOOSE i \in 1..Len(unitRows) :
                        /\ Get(unitRows[i], S_Mes_Anio) = Str(month)
                        /\ \A j \in 1..(i - 1) :
                              Get(unitRows[j], S_Mes_Anio) # Str(month)] >>
    ELSE << zeroRow(keys, month, unit) >>

\* The rows pushed by the months from..12 of one unit, in calendar order.
RECURSIVE unitBlock(_, _, _, _)
unitBlock(unitRows, keys, unit, from) ==
    IF from > Len(MONTHS_2025) THEN << >>
    ELSE monthRows(unitRows, keys, MONTHS_2025[from], unit)
            \o unitBlock(unitRows, keys, unit, from + 1)

\* filledData before the sort: unit-major, each unit in calendar order.
RECURSIVE filledData(_, _, _)
filledData(data, units, from) ==
    IF from > Len(units) THEN << >>
    ELSE LET unit == units[from]
             unitRows == SelectSeq(data, LAMBDA r : Get(r, S_Nombre_Unidad) = unit)
         IN  unitBlock(unitRows, Keys(data[1]), unit, 1)
                \o filledData(data, units, from + 1)

\* The comparator of the final sort: negative, zero or positive (a NaN
\* result, from an undefined month index, counts as zero).
compareFilled(a, b) ==
    LET ma == monthIndex(Get(a, S_Mes_Anio))
        mb == monthIndex(Get(b, S_Mes_Anio))
    IN  IF ma # mb THEN (IF ma = -1 \/ mb = -1 THEN 0 ELSE ma - mb)
        ELSE IF JsLess(Get(a, S_Nombre_Unidad), Get(b, S_Nombre_Unidad)) THEN -1
        ELSE IF JsLess(Get(b, S_Nombre_Unidad), Get(a, S_Nombre_Unidad)) THEN 1
        ELSE 0

\* x inserted into the sorted s behind every element that does not compare
\* greater than it.
RECURSIVE insertFilled(_, _)
insertFilled(s, x) ==
    IF s = << >> \/ compareFilled(s[Len(s)], x) <= 0 THEN Append(s, x)
    ELSE Append(insertFilled(SubSeq(s, 1, Len(s) - 1), x), s[Len(s)])

\* Array.prototype.sort with compareFilled: stable.
RECURSIVE sortFilled(_)
sortFilled(s) ==
    IF s = << >> THEN << >>
    ELSE insertFilled(sortFilled(SubSeq(s, 1, Len(s) - 1)), s[Len(s)])

\* fillMissingMonths, were the rows of months outside the calendar kept
\* behind the filled ones.
fillMissingMonthsKeepOthers(data) ==
    IF data = << >> THEN data
    ELSE IF ~HasOwn(data[1], S_Mes_Anio) \/ ~HasOwn(data[1], S_Nombre_Unidad)
    THEN data
    ELSE LET units == Unique([i \in 1..Len(data) |-> Get(data[i], S_Nombre_Unidad)])
         IN  sortFilled(filledData(data, units, 1))
                \o SelectSeq(data, LAMBDA r : monthIndex(Get(r, S_Mes_Anio)) = -1)

\* fillMissingMonths(data), data an array of objects
fillMissingMonths(data) ==
    IF data = << >> THEN data
    ELSE IF ~HasOwn(data[1], S_Mes_Anio) \/ ~HasOwn(data[1], S_Nombre_Unidad)
    THEN data
    ELSE LET units == Unique([i \in 1..Len(data) |-> Get(data[i], S_Nombre_Unidad)])
         IN  sortFilled(filledData(data, units, 1))

----------------------------------------------------------------------------
(* Rule-dispatched aggregator *)

\* name.replace(/\.json$/i, ""): a trailing .json, in any case, removed
stripJson(name) ==
    IF EndsWith(ToLowerCase(name), S_dot_json)
    THEN SubSeq(name, 1, Len(name) - Len(S_dot_json))
    ELSE name

\* The sum of a sequence of integers, from the left, starting at 0.
RECURSIVE SumSeq(_)
SumSeq(s) ==
    IF s = << >> THEN 0
    ELSE SumSeq(SubSeq(s, 1, Len(s) - 1)) + s[Len(s)]

\* genericValue, were one numeric value enough for the column to be summed.
genericValueSome(rows, key) ==
    IF \E i \in 1..Len(rows) : ~NumberIsNaN(Get(rows[i], key))
    THEN Num(SumSeq([i \in 1..Len(rows) |-> NumberOr0(Get(rows[i], key))]))
    ELSE Str(<< >>)

\* The aggregate of one column of a group: the sum when every row's value
\* converts to a number, the empty string otherwise.
genericValue(rows, key) ==
    IF \A i \in 1..Len(rows) : ~NumberIsNaN(Get(rows[i], key))
    THEN Num(SumSeq([i \in 1..Len(rows) |-> NumberOr0(Get(rows[i], key))]))
    ELSE Str(<< >>)

\* processGenericCounts: the summary row after the keys from.. of the
\* group's first row have been handled.
RECURSIVE genericFrom(_, _, _, _)
genericFrom(summaryRow, rows, keys, from) ==
    IF from > Len(keys) THEN summaryRow
    ELSE LET key == keys[from]
             next == IF key = S_Mes_Anio \/ key = S_Nombre_Unidad THEN summaryRow
                     ELSE Put(summaryRow, key, genericValue(rows, key))
         IN  genericFrom(next, rows, keys, from + 1)

processGenericCounts(summaryRow, rows) ==
    genericFrom(summaryRow, rows, Keys(rows[1]), 1)

processGlitches(summaryRow, rows) == processGenericCounts(summaryRow, rows)

\* processTicketsGeneral, were the estimated averages summed unweighted.
processTicketsGeneralUnweighted(summaryRow, rows) ==
    LET tickets == SumSeq([i \in 1..Len(rows) |-> NumberOr0(Get(rows[i], S_Cantidad_Tickets))])
        totalTimeProdSec ==
            SumSeq([i \in 1..Len(rows) |-> parseDuration(Get(rows[i], S_Total_Tiempo_Productivo))])
        totalEstSec ==
            SumSeq([i \in 1..Len(rows) |->
                parseDuration(Get(rows[i], S_Promedio_Tiempo_Estimado))])
        r1 == Put(summaryRow, S_Cantidad_Tickets, Num(tickets))
        r2 == Put(r1, S_Total_Tiempo_Productivo, Str(formatDuration(totalTimeProdSec)))
        r3 == Put(r2, S_Promedio_Tiempo_Productivo,
                  IF tickets > 0 THEN Str(formatDurationQ(totalTimeProdSec, tickets))
                  ELSE Str(S_0_00_00))
        r4 == Put(r3, S_Promedio_Tiempo_Estimado,
                  IF tickets > 0 THEN Str(formatDurationQ(totalEstSec, tickets))
                  ELSE Str(S_0_00_00))
    IN  Put(r4, S_Porcentaje_Cumplimiento,
            IF tickets > 0 /\ totalTimeProdSec > 0
            THEN Str(toFixed2Q(totalEstSec * 100, totalTimeProdSec))
            ELSE Str(S_0_00))

\* processTicketsGeneral, were the percentage divided by the productive
\* seconds without testing them: a division by zero gives Infinity or NaN.
processTicketsGeneralUnguarded(summaryRow, rows) ==
    LET tickets == SumSeq([i \in 1..Len(rows) |-> NumberOr0(Get(rows[i], S_Cantidad_Tickets))])
        totalTimeProdSec ==
            SumSeq([i \in 1..Len(rows) |-> parseDuration(Get(rows[i], S_Total_Tiempo_Productivo))])
        totalEstSec ==
            SumSeq([i \in 1..Len(rows) |->
                (parseDuration(Get(rows[i], S_Promedio_Tiempo_Estimado))
                    * NumberOr0(Get(rows[i], S_Cantidad_Tickets))) \div 100])
        r1 == Put(summaryRow, S_Cantidad_Tickets, Num(tickets))
        r2 == Put(r1, S_Total_Tiempo_Productivo, Str(formatDuration(totalTimeProdSec)))
        r3 == Put(r2, S_Promedio_Tiempo_Productivo,
                  IF tickets > 0 THEN Str(formatDurationQ(totalTimeProdSec, tickets))
                  ELSE Str(S_0_00_00))
        r4 == Put(r3, S_Promedio_Tiempo_Estimado,
                  IF tickets > 0 THEN Str(formatDurationQ(totalEstSec, tickets))
                  ELSE Str(S_0_00_00))
    IN  Put(r4, S_Porcentaje_Cumplimiento,
            IF tickets > 0 /\ totalTimeProdSec > 0
            THEN Str(toFixed2Q(totalEstSec * 100, totalTimeProdSec))
            ELSE IF tickets > 0 /\ totalEstSec > 0
            THEN Str(<< "I", "n", "f", "i", "n", "i", "t", "y" >>)
            ELSE IF tickets > 0 THEN Str(<< "N", "a", "N" >>)
            ELSE Str(S_0_00))

\* processTicketsGeneral: the summary row with its five fields.
processTicketsGeneral(summaryRow, rows) ==
    LET tickets == SumSeq([i \in 1..Len(rows) |-> NumberOr0(Get(rows[i], S_Cantidad_Tickets))])
        totalTimeProdSec ==
            SumSeq([i \in 1..Len(rows) |-> parseDuration(Get(rows[i], S_Total_Tiempo_Productivo))])
        totalEstSec ==
            SumSeq([i \in 1..Len(rows) |->
                (parseDuration(Get(rows[i], S_Promedio_Tiempo_Estimado))
                    * NumberOr0(Get(rows[i], S_Cantidad_Tickets))) \div 100])
        r1 == Put(summaryRow, S_Cantidad_Tickets, Num(tickets))
        r2 == Put(r1, S_Total_Tiempo_Productivo, Str(formatDuration(totalTimeProdSec)))
        r3 == Put(r2, S_Promedio_Tiempo_Productivo,
                  IF tickets > 0 THEN Str(formatDurationQ(totalTimeProdSec, tickets))
                  ELSE Str(S_0_00_00))
        r4 == Put(r3, S_Promedio_Tiempo_Estimado,
                  IF tickets > 0 THEN Str(formatDurationQ(totalEstSec, tickets))
                  ELSE Str(S_0_00_00))
    IN  Put(r4, S_Porcentaje_Cumplimiento,
            IF tickets > 0 /\ totalTimeProdSec > 0
            THEN Str(toFixed2Q(totalEstSec * 100, totalTimeProdSec))
            ELSE Str(S_0_00))

\* selectStrategy, were the general-data rule tested first.
selectStrategyPrefixFirst(name) ==
    IF \/ name = S_TICKETS_GENERAL
       \/ name = S_DATOS_GENERALES_UNIDAD_DEPARTAMENTO
       \/ StartsWith(name, S_DATOS_GENERALES)
    THEN "processTicketsGeneral"
    ELSE IF Includes(name, S_GLITCHES) THEN "processGlitches"
    ELSE "processGenericCounts"

\* The branch of the rule cascade that the upper-cased, extension-stripped
\* name takes.
selectStrategy(name) ==
    IF \/ Includes(name, S_MANTENIMIENTO)
       \/ Includes(name, S_TECNOLOGIA)
       \/ Includes(name, S_LOST_AND_FOUND)
    THEN "processGenericCounts"
    ELSE IF Includes(name, S_GLITCHES) THEN "processGlitches"
    ELSE IF \/ name = S_TICKETS_GENERAL
            \/ name = S_DATOS_GENERALES_UNIDAD_DEPARTAMENTO
            \/ StartsWith(name, S_DATOS_GENERALES)
    THEN "processTicketsGeneral"
    ELSE IF name = S_ETIQUETAS_UNIDAD_DEPARTAMENTO THEN "processGenericCounts"
    ELSE "processGenericCounts"

applyStrategy(strategy, summaryRow, rows) ==
    CASE strategy = "processGenericCounts" -> processGenericCounts(summaryRow, rows)
      [] strategy = "processGlitches" -> processGlitches(summaryRow, rows)
      [] strategy = "processTicketsGeneral" -> processTicketsGeneral(summaryRow, rows)

\* row["Nombre_Unidad"] || "N/A", as the property key of `groups` (the unit
\* values of the model are strings, null or undefined).
groupKey(row) ==
    LET v == Get(row, S_Nombre_Unidad)
    IN  IF Truthy(v) THEN v.s ELSE S_NA

\* The keys of `groups` in insertion order, which is the order of
\* Object.entries for keys that are not integer-like.
groupKeys(data) == Unique([i \in 1..Len(data) |-> groupKey(data[i])])

\* The summary rows of the groups from.. in order; the "N/A" group is skipped.
RECURSIVE aggregatedRows(_, _, _, _)
aggregatedRows(name, data, units, from) ==
    IF from > Len(units) THEN << >>
    ELSE LET unit == units[from]
             rows == SelectSeq(data, LAMBDA r : groupKey(r) = unit)
             summaryRow == << [k |-> S_Mes_Anio, v |-> Str(S_Acumulado_2025)],
                              [k |-> S_Nombre_Unidad, v |-> Str(unit)] >>
         IN  (IF unit = S_NA THEN << >>
              ELSE << applyStrategy(selectStrategy(name), summaryRow, rows) >>)
                \o aggregatedRows(name, data, units, from + 1)

\* aggregateData(filename, data), data an array of objects
aggregateData(filename, data) ==
    IF data = << >> THEN << >>
    ELSE aggregatedRows(ToUpperCase(stripJson(filename)), data, groupKeys(data), 1)

----------------------------------------------------------------------------
(* Pivot matrix builder *)

\* The property key a value is coerced to (the unit and month values of the
\* model are strings, null or undefined).
propertyKey(v) ==
    CASE v.t = "string" -> v.s
      [] v.t = "null" -> S_null
      [] v.t = "undefined" -> S_undefined

\* UNIT_ORDER.indexOf(v): 0-based, -1 when absent
unitOrderIndex(v) ==
    IF v.t = "string" /\ \E i \in 1..Len(UNIT_ORDER) : UNIT_ORDER[i] = v.s
    THEN (CHOOSE i \in 1..Len(UNIT_ORDER) : UNIT_ORDER[i] = v.s) - 1
    ELSE -1

\* a.localeCompare(b) for two strings.  The unit names of the model outside
\* UNIT_ORDER are capitalised alike and accent-free, for which the locale
\* order is the code unit order.
localeCompare(a, b) ==
    IF StrLess(a.s, b.s) THEN -1 ELSE IF StrLess(b.s, a.s) THEN 1 ELSE 0

\* The comparator of sortUnits.
compareUnits(a, b) ==
    LET ia == unitOrderIndex(a)
        ib == unitOrderIndex(b)
    IN  IF ia = -1 /\ ib = -1 THEN localeCompare(a, b)
        ELSE IF ia = -1 THEN 1
        ELSE IF ib = -1 THEN -1
        ELSE ia - ib

RECURSIVE insertUnit(_, _)
insertUnit(s, x) ==
    IF s = << >> \/ compareUnits(s[Len(s)], x) <= 0 THEN Append(s, x)
    ELSE Append(insertUnit(SubSeq(s, 1, Len(s) - 1), x), s[Len(s)])

RECURSIVE sortDefinedUnits(_)
sortDefinedUnits(s) ==
    IF s = << >> THEN << >>
    ELSE insertUnit(sortDefinedUnits(SubSeq(s, 1, Len(s) - 1)), s[Len(s)])

\* sortUnits(units): Array.prototype.sort is stable and moves undefined
\* elements to the end without comparing them.
sortUnits(units) ==
    sortDefinedUnits(SelectSeq(units, LAMBDA u : u # Undefined))
        \o SelectSeq(units, LAMBDA u : u = Undefined)

\* The sort key of a month label: its calendar index, 999 when unrecognized.
monthSortKey(v) == IF monthIndex(v) # -1 THEN monthIndex(v) ELSE 999

RECURSIVE insertMonth(_, _)
insertMonth(s, x) ==
    IF s = << >> \/ monthSortKey(s[Len(s)]) - monthSortKey(x) <= 0 THEN Append(s, x)
    ELSE Append(insertMonth(SubSeq(s, 1, Len(s) - 1), x), s[Len(s)])

RECURSIVE sortDefinedMonths(_)
sortDefinedMonths(s) ==
    IF s = << >> THEN << >>
    ELSE insertMonth(sortDefinedMonths(SubSeq(s, 1, Len(s) - 1)), s[Len(s)])

\* The distinct month values of the data in display order.
sortMonths(months) ==
    sortDefinedMonths(SelectSeq(months, LAMBDA m : m # Undefined))
        \o SelectSeq(months, LAMBDA m : m = Undefined)

\* The fixed list of known metrics, in detection order.
KNOWN_METRICS ==
    << S_Cantidad_Tickets, S_Cantidad_Total_Tickets_Glitch,
       S_Total_Tickets_Mantenimiento, S_Total_Tickets_TI,
       S_Total_Tickets_LostAndFound, S_Total_Tiempo_Productivo,
       S_Promedio_Tiempo_Productivo, S_Promedio_Tiempo_Estimado,
       S_Porcentaje_Cumplimiento >>

\* metrics_to_pivot: the known metrics the first row has, in list order
metrics_to_pivot(sample) ==
    SelectSeq(KNOWN_METRICS, LAMBDA m : HasOwn(sample, m))

\* The cell of one period row: the metric of the first record of that month
\* and unit; 0 when there is none, or when its value is undefined or null.
pivotCell(data, metric, month, unit) ==
    IF \E i \in 1..Len(data) :
          Get(data[i], S_Mes_Anio) = month /\ Get(data[i], S_Nombre_Unidad) = unit
    THEN LET record == data[CHOOSE i \in 1..Len(data) :
                            /\ Get(data[i], S_Mes_Anio) = month
                            /\ Get(data[i], S_Nombre_Unidad) = unit
                            /\ \A j \in 1..(i - 1) :
                                  ~(/\ Get(data[j], S_Mes_Anio) = month
                                    /\ Get(data[j], S_Nombre_Unidad) = unit)]
             val == Get(record, metric)
         IN  IF val = Undefined \/ val = Null THEN Int2Num(0) ELSE val
    ELSE Int2Num(0)

\* rowObj with the cells of units[from..] added
RECURSIVE periodRowFrom(_, _, _, _, _, _)
periodRowFrom(rowObj, data, metric, month, units, from) ==
    IF from > Len(units) THEN rowObj
    ELSE periodRowFrom(
            Put(rowObj, propertyKey(units[from]),
                pivotCell(data, metric, month, units[from])),
            data, metric, month, units, from + 1)

\* tableRows before the totals row: one row object per month
tableRows(data, metric, months, units) ==
    [i \in 1..Len(months) |->
        periodRowFrom(<< [k |-> S_Mes, v |-> months[i]] >>,
                      data, metric, months[i], units, 1)]

\* The total of one unit column, by the duration branch.
totalTime(metric, rows, key) ==
    LET totalSec == SumSeq([i \in 1..Len(rows) |-> parseDuration(Get(rows[i], key))])
        count == Len(SelectSeq(rows, LAMBDA r : parseDuration(Get(r, key)) > 0))
    IN  IF StartsWith(metric, S_Promedio) /\ count > 0
        THEN Str(formatDurationQ(totalSec, 100 * count))
        ELSE Str(formatDuration(totalSec))

\* totalPct, were the rows without a positive value counted in the average.
totalPctAllRows(rows, key) ==
    LET validRows == SelectSeq(rows, LAMBDA r :
                        ~NumberIsNaN(Get(r, key)) /\ NumberOf(Get(r, key)) > 0)
        sum == SumSeq([i \in 1..Len(validRows) |-> ParseFloatOr0(Get(validRows[i], key))])
    IN  IF Len(validRows) > 0
        THEN Str(toFixed2Q(sum, 100 * Len(rows)))
        ELSE Str(S_0_00)

\* The total of one unit column, by the percentage branch.
totalPct(rows, key) ==
    LET validRows == SelectSeq(rows, LAMBDA r :
                        ~NumberIsNaN(Get(r, key)) /\ NumberOf(Get(r, key)) > 0)
        sum == SumSeq([i \in 1..Len(validRows) |-> ParseFloatOr0(Get(validRows[i], key))])
    IN  IF Len(validRows) > 0
        THEN Str(toFixed2Q(sum, 100 * Len(validRows)))
        ELSE Str(S_0_00)

\* The total of one unit column, by the numeric branch.
totalSum(rows, key) == Num(SumSeq([i \in 1..Len(rows) |-> NumberOr0(Get(rows[i], key))]))

\* isTime: the column's first cell is a string holding a colon
isTime(firstVal) == firstVal.t = "string" /\ Includes(firstVal.s, << ":" >>)

\* The TOTAL cell of one unit column.
totalCell(metric, rows, key) ==
    IF isTime(Get(rows[1], key)) THEN totalTime(metric, rows, key)
    ELSE IF Includes(metric, S_Porcentaje) THEN totalPct(rows, key)
    ELSE totalSum(rows, key)

\* totalRow with the cells of units[from..] added
RECURSIVE totalRowFrom(_, _, _, _, _)
totalRowFrom(totalRow, metric, rows, units, from) ==
    IF from > Len(units) THEN totalRow
    ELSE totalRowFrom(
            Put(totalRow, propertyKey(units[from]),
                totalCell(metric, rows, propertyKey(units[from]))),
            metric, rows, units, from + 1)

\* columnHeader with units[from..] added
RECURSIVE columnHeaderFrom(_, _, _)
columnHeaderFrom(header, units, from) ==
    IF from > Len(units) THEN header
    ELSE columnHeaderFrom(Put(header, propertyKey(units[from]), units[from]),
                          units, from + 1)

\* The rows one metric pushes: spacer, title, column header, period rows,
\* totals row.
metricTable(data, metric, months, units) ==
    LET rows == tableRows(data, metric, months, units)
    IN  << << >>,
           << [k |-> S_pivot_title, v |-> Str(S_COMPARATIVA \o metric)] >>,
           columnHeaderFrom(<< [k |-> S_Mes, v |-> Str(S_Mes)] >>, units, 1) >>
        \o rows
        \o << totalRowFrom(<< [k |-> S_Mes, v |-> Str(S_TOTAL)] >>,
                           metric, rows, units, 1) >>

RECURSIVE pivotTablesRows(_, _, _, _, _)
pivotTablesRows(data, metrics, months, units, from) ==
    IF from > Len(metrics) THEN << >>
    ELSE metricTable(data, metrics[from], months, units)
            \o pivotTablesRows(data, metrics, months, units, from + 1)

\* The distinct unit values of the data in display order.
pivotUnits(data) ==
    sortUnits(Unique([i \in 1..Len(data) |-> Get(data[i], S_Nombre_Unidad)]))

\* The distinct month values of the data in display order.
pivotMonths(data) ==
    sortMonths(Unique([i \in 1..Len(data) |-> Get(data[i], S_Mes_Anio)]))

\* generatePivotTables(data), data an array of objects
generatePivotTables(data) ==
    IF data = << >> THEN << >>
    ELSE IF metrics_to_pivot(data[1]) = << >> THEN << >>
    ELSE pivotTablesRows(data, metrics_to_pivot(data[1]),
                         pivotMonths(data), pivotUnits(data), 1)

----------------------------------------------------------------------------
(* Sheet naming and grid assembly *)

MAX_SHEET_NAME_LENGTH == 31

\* The characters a sheet name may not hold: the class [:\\/?*\[\]]
ForbiddenChars == { ":", "\\", "/", "?", "*", "[", "]" }

cleanSheetName(name) ==
    LET stripped == stripJson(name)
        clean == [i \in 1..Len(stripped) |->
                    IF stripped[i] \in ForbiddenChars THEN "_" ELSE stripped[i]]
    IN  IF Len(clean) > MAX_SHEET_NAME_LENGTH
        THEN Substring0(clean, MAX_SHEET_NAME_LENGTH)
        ELSE clean

\* resolveSheetName, were the loop an if: the first suffixed name is taken
\* without looking it up.
resolveSheetNameOnce(sheetNames, sheetName, finalSheetName, counter) ==
    IF \E i \in 1..Len(sheetNames) : sheetNames[i] = finalSheetName
    THEN Substring0(sheetName, MAX_SHEET_NAME_LENGTH - 3)
            \o << "_" >> \o IntToStr(counter)
    ELSE finalSheetName

\* The collision loop: the first name not among sheetNames, starting from
\* finalSheetName and then trying the truncated base with _counter.
RECURSIVE resolveSheetName(_, _, _, _)
resolveSheetName(sheetNames, sheetName, finalSheetName, counter) ==
    IF \E i \in 1..Len(sheetNames) : sheetNames[i] = finalSheetName
    THEN resolveSheetName(
            sheetNames, sheetName,
            Substring0(sheetName, MAX_SHEET_NAME_LENGTH - 3)
                \o << "_" >> \o IntToStr(counter),
            counter + 1)
    ELSE finalSheetName

\* One line of the pivot block of the grid, from one pivot-builder row.
pivotLine(row, unitsForPivot) ==
    IF Len(Keys(row)) = 0 THEN << >>
    ELSE IF Truthy(Get(row, S_pivot_title)) THEN << Get(row, S_pivot_title) >>
    ELSE << IF Truthy(Get(row, S_Mes)) THEN Get(row, S_Mes) ELSE Str(<< >>) >>
            \o [i \in 1..Len(unitsForPivot) |->
                    Get(row, propertyKey(unitsForPivot[i]))]

\* project, were the cells of a row its own values: Object.values(r)
projectOwn(r, keys) == [i \in 1..Len(r) |-> r[i].v]

\* The cells of one object under a list of keys: keys.map((k) => r[k])
project(r, keys) == [i \in 1..Len(keys) |-> Get(r, keys[i])]

\* sheetAOA, were the spacer before the pivot tables pushed whether or not
\* there are pivot rows.
sheetAOASpacer(rows, acc, pivot) ==
    LET originalKeys == Keys(rows[1])
        accKeys == Keys(acc[1])
        unitsForPivot == pivotUnits(rows)
    IN  << [i \in 1..Len(originalKeys) |-> Str(originalKeys[i])] >>
        \o [i \in 1..Len(rows) |-> project(rows[i], originalKeys)]
        \o (IF Len(acc) > 0
            THEN << << >>, << >>, [i \in 1..Len(accKeys) |-> Str(accKeys[i])] >>
                    \o [i \in 1..Len(acc) |-> project(acc[i], accKeys)]
            ELSE << >>)
        \o << << >> >> \o [i \in 1..Len(pivot) |-> pivotLine(pivot[i], unitsForPivot)]

\* sheetAOA: the grid of one report, a sequence of rows of cells
sheetAOA(rows, acc, pivot) ==
    LET originalKeys == Keys(rows[1])
        accKeys == Keys(acc[1])
        unitsForPivot == pivotUnits(rows)
    IN  << [i \in 1..Len(originalKeys) |-> Str(originalKeys[i])] >>
        \o [i \in 1..Len(rows) |-> project(rows[i], originalKeys)]
        \o (IF Len(acc) > 0
            THEN << << >>, << >>, [i \in 1..Len(accKeys) |-> Str(accKeys[i])] >>
                    \o [i \in 1..Len(acc) |-> project(acc[i], accKeys)]
            ELSE << >>)
        \o (IF Len(pivot) > 0
            THEN << << >> >> \o [i \in 1..Len(pivot) |-> pivotLine(pivot[i], unitsForPivot)]
            ELSE << >>)

\* Step 0 of the per-report pipeline: the series handed to the aggregator
\* and to the pivot builder.
filledOrSame(rows) ==
    IF Truthy(Get(rows[1], S_Mes_Anio)) /\ Truthy(Get(rows[1], S_Nombre_Unidad))
    THEN fillMissingMonths(rows)
    ELSE rows

----------------------------------------------------------------------------
(* State *)

VARIABLES
    jsonFiles,    \* the .json files of the directory, in readdir order
    idx,          \* how many of them the loop has gone through
    workbook,     \* the sheets appended so far: [name, aoa], in order
    hasSheets,    \* the flag of that name
    errors,       \* the file names reported by the catch clause, in order
    written,      \* the workbooks handed to XLSX.writeFile, in order
    data,         \* `data` of the latest iteration that built a sheet
    accumulated,  \* `accumulated` of that iteration
    pivotData,    \* `pivotData` of that iteration
    pc,           \* "loop" and "done" for a directory; "ready" and
                  \* "returned" for a direct call of one function
    args,         \* its arguments
    result        \* its return value

vars == << jsonFiles, idx, workbook, hasSheets, errors, written,
           data, accumulated, pivotData, pc, args, result >>

dirVars == << jsonFiles, idx, workbook, hasSheets, errors, written,
              data, accumulated, pivotData >>

callVars == << pc, args, result >>

\* No directory is being processed.
NoDirectory ==
    /\ jsonFiles = << >>
    /\ idx = 0
    /\ workbook = << >>
    /\ hasSheets = FALSE
    /\ errors = << >>
    /\ written = << >>
    /\ data = << >>
    /\ accumulated = << >>
    /\ pivotData = << >>

\* No function is being called directly.
NoCall ==
    /\ args = << >>
    /\ result = << >>

\* The sequences over S of length 1..n.
SeqsUpTo(S, n) == UNION { [1..k -> S] : k \in 1..n }

----------------------------------------------------------------------------
(* Direct calls of fillMissingMonths *)

MaxFillRows == 3

S_Enero_2024 == << "E", "n", "e", "r", "o", " ", "2", "0", "2", "4" >>

S_1_00_00 == << "1", ":", "0", "0", ":", "0", "0" >>

\* A row of a time-tracking report.
FillRow(month, unit, count) ==
    << [k |-> S_Mes_Anio, v |-> Str(month)],
       [k |-> S_Nombre_Unidad, v |-> Str(unit)],
       [k |-> S_Cantidad_Tickets, v |-> Int2Num(count)],
       [k |-> S_Total_Tiempo_Productivo, v |-> Str(S_1_00_00)],
       [k |-> S_Porcentaje_Cumplimiento, v |-> Num(9550)] >>

\* row without its key `key`
Without(row, key) == SelectSeq(row, LAMBDA e : e.k # key)

FillRows ==
    { FillRow(m, u, c) :
        m \in { S_Enero_2025, S_Marzo_2025, S_Enero_2024 },
        u \in { S_Princess_Mundo_Imperial, S_Pierre_Mundo_Imperial },
        c \in { 1, 2 } }

\* First rows that lack one of the two privileged columns.
FillRowsLacking ==
    { Without(FillRow(S_Enero_2025, S_Pierre_Mundo_Imperial, 1), S_Mes_Anio),
      Without(FillRow(S_Enero_2025, S_Pierre_Mundo_Imperial, 1), S_Nombre_Unidad) }

\* The series of the direct calls: the unit values are strings, so that the
\* comparator of the final sort is a consistent order.
FillInputs ==
    { s \in SeqsUpTo(FillRows \cup FillRowsLacking, MaxFillRows) :
        \A i \in 2..Len(s) : s[i] \in FillRows }

InitFill ==
    /\ NoDirectory
    /\ pc = "ready"
    /\ args \in { [data |-> d] : d \in FillInputs }
    /\ result = << >>

CallFillMissingMonths ==
    /\ pc = "ready"
    /\ result' = fillMissingMonths(args.data)
    /\ pc' = "returned"
    /\ UNCHANGED << args, dirVars >>

NextFill == CallFillMissingMonths

SpecFill == InitFill /\ [][NextFill]_vars

\* The two privileged columns are own properties of the first row.
HasBothColumns(rows) ==
    HasOwn(rows[1], S_Mes_Anio) /\ HasOwn(rows[1], S_Nombre_Unidad)

\* The set of distinct unit values of a series.
UnitValues(rows) == { Get(rows[i], S_Nombre_Unidad) : i \in 1..Len(rows) }

----------------------------------------------------------------------------
(* Direct calls of aggregateData *)

MaxAggRows == 2

\* Report file names.
F_tickets_general ==
    << "t", "i", "c", "k", "e", "t", "s", "_", "g", "e", "n", "e", "r",
       "a", "l", ".", "j", "s", "o", "n" >>

F_datos_generales_unidad ==
    << "D", "a", "t", "o", "s", "_", "G", "e", "n", "e", "r", "a", "l",
       "e", "s", "_", "U", "n", "i", "d", "a", "d", ".", "J", "S", "O",
       "N" >>

F_datos_generales_mantenimiento ==
    << "D", "A", "T", "O", "S", "_", "G", "E", "N", "E", "R", "A", "L",
       "E", "S", "_", "M", "A", "N", "T", "E", "N", "I", "M", "I", "E",
       "N", "T", "O", ".", "j", "s", "o", "n" >>

F_datos_generales_glitches ==
    << "d", "a", "t", "o", "s", "_", "g", "e", "n", "e", "r", "a", "l",
       "e", "s", "_", "g", "l", "i", "t", "c", "h", "e", "s", ".", "j",
       "s", "o", "n" >>

F_tickets_tecnologia ==
    << "t", "i", "c", "k", "e", "t", "s", "_", "t", "e", "c", "n", "o",
       "l", "o", "g", "i", "a", ".", "j", "s", "o", "n" >>

F_lost_and_found ==
    << "l", "o", "s", "t", "_", "a", "n", "d", "_", "f", "o", "u", "n",
       "d", "_", "u", "n", "i", "d", "a", "d", ".", "j", "s", "o", "n" >>

F_etiquetas ==
    << "e", "t", "i", "q", "u", "e", "t", "a", "s", "_", "u", "n", "i",
       "d", "a", "d", "_", "d", "e", "p", "a", "r", "t", "a", "m", "e",
       "n", "t", "o", ".", "j", "s", "o", "n" >>

F_x_tickets_general ==
    << "x", "_", "t", "i", "c", "k", "e", "t", "s", "_", "g", "e", "n",
       "e", "r", "a", "l", ".", "j", "s", "o", "n" >>

FileNames ==
    { F_tickets_general,
      F_datos_generales_unidad,
      F_datos_generales_mantenimiento,
      F_datos_generales_glitches,
      F_tickets_tecnologia,
      F_lost_and_found,
      F_etiquetas,
      F_x_tickets_general }

S_0_30_00 == << "0", ":", "3", "0", ":", "0", "0" >>

S_0_50_00 == << "0", ":", "5", "0", ":", "0", "0" >>

S_0_20_00 == << "0", ":", "2", "0", ":", "0", "0" >>

S_1_30_00 == << "1", ":", "3", "0", ":", "0", "0" >>

S_0_18_00 == << "0", ":", "1", "8", ":", "0", "0" >>

S_0_38_00 == << "0", ":", "3", "8", ":", "0", "0" >>

S_211_11 == << "2", "1", "1", ".", "1", "1" >>

S_2 == << "2" >>

S_10_50 == << "1", "0", ".", "5", "0" >>

S_abc == << "a", "b", "c" >>

S_Departamento ==
    << "D", "e", "p", "a", "r", "t", "a", "m", "e", "n", "t", "o" >>

\* A row of a time-tracking report with its estimated average.
TicketRow(unit, count, productive, estimated) ==
    << [k |-> S_Mes_Anio, v |-> Str(S_Enero_2025)],
       [k |-> S_Nombre_Unidad, v |-> Str(unit)],
       [k |-> S_Cantidad_Tickets, v |-> Int2Num(count)],
       [k |-> S_Total_Tiempo_Productivo, v |-> Str(productive)],
       [k |-> S_Promedio_Tiempo_Estimado, v |-> Str(estimated)] >>

TicketRows ==
    { TicketRow(u, c, pe[1], pe[2]) :
        u \in { S_Pierre_Mundo_Imperial, S_Palacio_Mundo_Imperial },
        c \in { 3, 2, 0 },
        pe \in { << S_1_00_00, S_0_50_00 >>, << S_0_30_00, S_0_20_00 >>,
                 << S_00_00_00, S_0_20_00 >> } }

\* A row of a counting report: one label column, one count column.
CountRow(unit, label, count) ==
    << [k |-> S_Mes_Anio, v |-> Str(S_Enero_2025)],
       [k |-> S_Nombre_Unidad, v |-> unit],
       [k |-> S_Departamento, v |-> label],
       [k |-> S_Total_Tickets_TI, v |-> count] >>

CountRows ==
    { CountRow(Str(u), Str(S_abc), c) :
        u \in { S_Pierre_Mundo_Imperial, S_Palacio_Mundo_Imperial },
        c \in { Str(S_2), Str(S_10_50), Str(S_abc), Int2Num(1), Null } }

\* Rows that differ in how, and whether, the unit is given.
UnitRows ==
    { CountRow(u, Str(S_abc), Int2Num(1)) :
        u \in { Str(S_Pierre_Mundo_Imperial), Str(S_Palacio_Mundo_Imperial),
                Str(S_NA), Str(<< >>), Null } }
    \cup { Without(CountRow(Null, Str(S_abc), Int2Num(1)), S_Nombre_Unidad) }

\* The calls: time-tracking series under the names that lead with the
\* general-data prefix, counting series under every name, and series with
\* unset units under one name of each strategy.
AggCalls ==
    { [filename |-> f, data |-> d] :
        f \in { F_tickets_general, F_datos_generales_unidad,
                F_datos_generales_mantenimiento },
        d \in SeqsUpTo(TicketRows, MaxAggRows) }
    \cup { [filename |-> f, data |-> d] :
            f \in FileNames, d \in SeqsUpTo(CountRows, MaxAggRows) }
    \cup { [filename |-> f, data |-> d] :
            f \in { F_tickets_general, F_etiquetas },
            d \in SeqsUpTo(UnitRows, MaxAggRows) }

InitAgg ==
    /\ NoDirectory
    /\ pc = "ready"
    /\ args \in AggCalls
    /\ result = << >>

CallAggregateData ==
    /\ pc = "ready"
    /\ result' = aggregateData(args.filename, args.data)
    /\ pc' = "returned"
    /\ UNCHANGED << args, dirVars >>

NextAgg == CallAggregateData

SpecAgg == InitAgg /\ [][NextAgg]_vars

\* The rows of a series whose unit is the value u.
RowsOfUnit(rows, u) == SelectSeq(rows, LAMBDA r : Get(r, S_Nombre_Unidad) = u)

\* The indices of the result rows whose unit is the value u.
ResultRowsOf(u) == { i \in 1..Len(result) : Get(result[i], S_Nombre_Unidad) = u }

\* A unit value that is a non-empty text other than the "N/A" marker.
NamedUnit(u) == u.t = "string" /\ u.s # << >> /\ u.s # S_NA

TicketsFiles == { F_tickets_general, F_datos_generales_unidad }

\* C3: under Tickets-General, a unit group with ticket count > 0 and
\* productive seconds > 0 gets the count sum, the formatted productive
\* total, the two formatted quotients by the ticket count, and the
\* compliance percentage with 2 decimals; counts [3,2], productive
\* [1:00:00, 0:30:00], estimated [0:50:00, 0:20:00] give 5, 1:30:00,
\* 0:18:00, 0:38:00 and 211.11.
C3_TicketsGeneralFormulas ==
    (pc = "returned" /\ args.filename \in TicketsFiles) =>
        /\ \A u \in UnitValues(args.data) :
              LET rows == RowsOfUnit(args.data, u)
                  n == Len(rows)
                  count == SumSeq([i \in 1..n |->
                              NumberOr0(Get(rows[i], S_Cantidad_Tickets))])
                  prod == SumSeq([i \in 1..n |->
                              parseDuration(Get(rows[i], S_Total_Tiempo_Productivo))])
                  est == SumSeq([i \in 1..n |->
                              (parseDuration(Get(rows[i], S_Promedio_Tiempo_Estimado))
                                 \div 100)
                              * NumberOr0(Get(rows[i], S_Cantidad_Tickets))])
              IN  (NamedUnit(u) /\ count > 0 /\ prod > 0) =>
                     \E i \in ResultRowsOf(u) :
                        /\ Get(result[i], S_Cantidad_Tickets) = Num(count)
                        /\ Get(result[i], S_Total_Tiempo_Productivo)
                              = Str(formatDuration(prod))
                        /\ Get(result[i], S_Promedio_Tiempo_Productivo)
                              = Str(formatDurationQ(prod, count))
                        /\ Get(result[i], S_Promedio_Tiempo_Estimado)
                              = Str(formatDurationQ(est, count))
                        /\ Get(result[i], S_Porcentaje_Cumplimiento)
                              = Str(toFixed2Q(est * 100, prod))
        /\ args.data = << TicketRow(S_Pierre_Mundo_Imperial, 3, S_1_00_00, S_0_50_00),
                          TicketRow(S_Pierre_Mundo_Imperial, 2, S_0_30_00, S_0_20_00) >>
              => result =
                    << << [k |-> S_Mes_Anio, v |-> Str(S_Acumulado_2025)],
                          [k |-> S_Nombre_Unidad, v |-> Str(S_Pierre_Mundo_Imperial)],
                          [k |-> S_Cantidad_Tickets, v |-> Int2Num(5)],
                          [k |-> S_Total_Tiempo_Productivo, v |-> Str(S_1_30_00)],
                          [k |-> S_Promedio_Tiempo_Productivo, v |-> Str(S_0_18_00)],
                          [k |-> S_Promedio_Tiempo_Estimado, v |-> Str(S_0_38_00)],
                          [k |-> S_Porcentaje_Cumplimiento, v |-> Str(S_211_11)] >> >>

\* The call on the example series under a Tickets-General name has returned.
C3_Witness ==
    /\ pc = "returned"
    /\ args.filename = F_tickets_general
    /\ args.data = << TicketRow(S_Pierre_Mundo_Imperial, 3, S_1_00_00, S_0_50_00),
                      TicketRow(S_Pierre_Mundo_Imperial, 2, S_0_30_00, S_0_20_00) >>
    /\ Get(result[1], S_Porcentaje_Cumplimiento) = Str(S_211_11)

\* A text made of digits and at most a decimal point between them.
IsNumericText(v) ==
    /\ v.t = "string"
    /\ v.s # << >>
    /\ \A i \in 1..Len(v.s) : IsDigit(v.s[i]) \/ (v.s[i] = "." /\ 1 < i /\ i < Len(v.s))
    /\ Cardinality({ i \in 1..Len(v.s) : v.s[i] = "." }) <= 1

\* A text holding a character that no number has.
IsNonNumericText(v) ==
    /\ v.t = "string"
    /\ \E i \in 1..Len(v.s) : ~IsDigit(v.s[i]) /\ v.s[i] \notin { ".", " ", "-", "+" }

GenericFiles == FileNames \ TicketsFiles

C5_OneRowPerPresentUnit ==
    pc = "returned" =>
        LET present == { u \in UnitValues(args.data) : u.t = "string" /\ u.s # << >> }
        IN  /\ \A u \in present :
                  /\ Cardinality(ResultRowsOf(u)) = 1
                  /\ \A i \in ResultRowsOf(u) :
                        Get(result[i], S_Mes_Anio) = Str(S_Acumulado_2025)
            /\ \A i \in 1..Len(result) : Get(result[i], S_Nombre_Unidad) \in present

\* C6: the strategy is Generic Counts when the upper-cased, extension-
\* stripped name holds MANTENIMIENTO, TECNOLOGIA, LOST_AND_FOUND or
\* GLITCHES; else Tickets-General when the name is TICKETS_GENERAL or
\* starts with DATOS_GENERALES; else Generic Counts.  Each group's row is
\* the outcome of that one strategy and not of the other.
C6_StrategySelection ==
    pc = "returned" =>
        LET name == ToUpperCase(stripJson(args.filename))
            marker == \E m \in { S_MANTENIMIENTO, S_TECNOLOGIA,
                                 S_LOST_AND_FOUND, S_GLITCHES } : Includes(name, m)
            tickets == /\ ~marker
                       /\ name = S_TICKETS_GENERAL \/ StartsWith(name, S_DATOS_GENERALES)
        IN  \A i \in 1..Len(result) :
               LET u == Get(result[i], S_Nombre_Unidad)
                   rows == RowsOfUnit(args.data, u)
                   base == << [k |-> S_Mes_Anio, v |-> Str(S_Acumulado_2025)],
                              [k |-> S_Nombre_Unidad, v |-> u] >>
                   asTickets == processTicketsGeneral(base, rows)
                   asGeneric == processGenericCounts(base, rows)
               IN  /\ asTickets # asGeneric
                   /\ result[i] = IF tickets THEN asTickets ELSE asGeneric

\* A call under a name with both the general-data prefix and a maintenance
\* marker has returned a Generic Counts row.
C6_Witness ==
    /\ pc = "returned"
    /\ args.filename = F_datos_generales_mantenimiento
    /\ Len(result) = 1
    /\ ~HasOwn(result[1], S_Porcentaje_Cumplimiento)
    /\ HasOwn(result[1], S_Promedio_Tiempo_Estimado)

----------------------------------------------------------------------------
(* Direct calls of generatePivotTables *)

MaxPivotRows == 3

S_50_00 == << "5", "0", ".", "0", "0" >>

S_3 == << "3" >>

S_75_00 == << "7", "5", ".", "0", "0" >>

\* A row of a time-tracking report with its four metrics.
PivotRow(month, unit, m) ==
    << [k |-> S_Mes_Anio, v |-> Str(month)],
       [k |-> S_Nombre_Unidad, v |-> Str(unit)],
       [k |-> S_Cantidad_Tickets, v |-> m[1]],
       [k |-> S_Total_Tiempo_Productivo, v |-> m[2]],
       [k |-> S_Promedio_Tiempo_Productivo, v |-> m[3]],
       [k |-> S_Porcentaje_Cumplimiento, v |-> m[4]] >>

\* The metric values of a row: as texts, as numbers, and as the nulls of a
\* month without tickets.
PivotMetrics ==
    { << Int2Num(2), Str(S_1_00_00), Str(S_0_30_00), Str(S_50_00) >>,
      << Str(S_3), Str(S_0_30_00), Str(S_0_20_00), Int2Num(100) >>,
      << Int2Num(0), Null, Null, Null >> }

PivotRows ==
    { PivotRow(mo, u, m) :
        mo \in { S_Enero_2025, S_Febrero_2025 },
        u \in { S_Palacio_Mundo_Imperial, S_Pierre_Mundo_Imperial },
        m \in PivotMetrics }

InitPivot ==
    /\ NoDirectory
    /\ pc = "ready"
    /\ args \in { [data |-> d] : d \in SeqsUpTo(PivotRows, MaxPivotRows) }
    /\ result = << >>

CallGeneratePivotTables ==
    /\ pc = "ready"
    /\ result' = generatePivotTables(args.data)
    /\ pc' = "returned"
    /\ UNCHANGED << args, dirVars >>

NextPivot == CallGeneratePivotTables

SpecPivot == InitPivot /\ [][NextPivot]_vars

\* The pivot rows are tables of equal height: a spacer, a title, a column
\* header, the period rows and the TOTAL row.  These read one table out of
\* a sequence of pivot rows.
IsTotalRow(row) == Get(row, S_Mes) = Str(S_TOTAL)

TotalRowIndices(pivot) == { i \in 1..Len(pivot) : IsTotalRow(pivot[i]) }

\* The index of the title row of the table whose TOTAL row is at index i.
TitleIndex(pivot, i) ==
    CHOOSE j \in 1..i :
        /\ HasOwn(pivot[j], S_pivot_title)
        /\ \A h \in (j + 1)..i : ~HasOwn(pivot[h], S_pivot_title)

\* The metric a title row names: the title without its prefix.
TitleMetric(row) ==
    LET title == Get(row, S_pivot_title).s
    IN  SubSeq(title, Len(S_COMPARATIVA) + 1, Len(title))

\* The period rows of the table whose TOTAL row is at index i.
PeriodRows(pivot, i) == SubSeq(pivot, TitleIndex(pivot, i) + 2, i - 1)

\* The unit columns of a row of a table.
UnitKeys(row) == { row[j].k : j \in 1..Len(row) } \ { S_Mes }

\* The cells of a column that hold a number above zero, as hundredths.
PositiveCells(rows, key) ==
    [j \in { h \in 1..Len(rows) :
               ~NumberIsNaN(Get(rows[h], key)) /\ NumberOf(Get(rows[h], key)) > 0 }
        |-> NumberOf(Get(rows[j], key))]

\* The sum of the values of a function of finite domain.
RECURSIVE SumFun(_)
SumFun(f) ==
    IF DOMAIN f = { } THEN 0
    ELSE LET x == CHOOSE y \in DOMAIN f : TRUE
         IN  f[x] + SumFun([y \in DOMAIN f \ { x } |-> f[y]])

\* C9: the TOTAL cell of a unit column is, for a plain numeric metric, the
\* sum of the unit's period cells and, for a Porcentaje metric, the average
\* of the strictly positive period cells with 2 decimals, "0.00" when none
\* is positive.
C9_PivotTotals ==
    pc = "returned" =>
        \A i \in TotalRowIndices(result) :
            LET metric == TitleMetric(result[TitleIndex(result, i)])
                rows == PeriodRows(result, i)
            IN  \A key \in UnitKeys(result[i]) :
                   LET positive == PositiveCells(rows, key)
                       n == Cardinality(DOMAIN positive)
                   IN  /\ metric = S_Cantidad_Tickets =>
                            Get(result[i], key)
                               = Num(SumSeq([j \in 1..Len(rows) |->
                                        NumberOf(Get(rows[j], key))]))
                       /\ (Includes(metric, S_Porcentaje) /\ n > 0) =>
                            Get(result[i], key)
                               = Str(toFixed2Q(SumFun(positive), 100 * n))
                       /\ (Includes(metric, S_Porcentaje) /\ n = 0) =>
                            Get(result[i], key) = Str(S_0_00)

\* A call has returned a Porcentaje table whose Palacio column holds 50.00,
\* 100 and no zero, averaged to 75.00, and a Pierre column with one zero cell
\* left out of its average.
C9_Witness ==
    /\ pc = "returned"
    /\ args.data = << PivotRow(S_Enero_2025, S_Palacio_Mundo_Imperial,
                          << Int2Num(2), Str(S_1_00_00), Str(S_0_30_00), Str(S_50_00) >>),
                      PivotRow(S_Febrero_2025, S_Palacio_Mundo_Imperial,
                          << Str(S_3), Str(S_0_30_00), Str(S_0_20_00), Int2Num(100) >>),
                      PivotRow(S_Febrero_2025, S_Pierre_Mundo_Imperial,
                          << Str(S_3), Str(S_0_30_00), Str(S_0_20_00), Int2Num(100) >>) >>
    /\ \E i \in TotalRowIndices(result) :
          /\ Get(result[i], S_Palacio_Mundo_Imperial) = Str(S_75_00)
          /\ Get(result[i], S_Pierre_Mundo_Imperial)
                = Str(<< "1", "0", "0", ".", "0", "0" >>)
    /\ \E i \in TotalRowIndices(result) :
          /\ Get(result[i], S_Palacio_Mundo_Imperial) = Int2Num(5)
          /\ Get(result[i], S_Pierre_Mundo_Imperial) = Int2Num(3)

\* C10: the method of a table's totals row depends on the metric name
\* alone: one of the three methods gives the TOTAL cell of every unit
\* column of the table, whatever the cells of the column.
C10_OneMethodPerMetric ==
    pc = "returned" =>
        \A i \in TotalRowIndices(result) :
            LET metric == TitleMetric(result[TitleIndex(result, i)])
                rows == PeriodRows(result, i)
            IN  \/ \A key \in UnitKeys(result[i]) :
                      Get(result[i], key) = totalTime(metric, rows, key)
                \/ \A key \in UnitKeys(result[i]) :
                      Get(result[i], key) = totalPct(rows, key)
                \/ \A key \in UnitKeys(result[i]) :
                      Get(result[i], key) = totalSum(rows, key)

----------------------------------------------------------------------------
(* processDirectoryToWorkbook *)

MaxFiles == 2

F_a_question_b == << "a", "?", "b", ".", "j", "s", "o", "n" >>

F_a_star_b == << "a", "*", "b", ".", "J", "S", "O", "N" >>

F_a_b_1 == << "a", "_", "b", "_", "1", ".", "j", "s", "o", "n" >>

DirFileNames == { F_a_question_b, F_a_star_b, F_a_b_1 }

\* What reading and parsing a file gives: readFileSync throws
\* ("unreadable"), JSON.parse throws ("invalid"), the JSON is no array
\* ("value"), or it is an array: of objects (rows), or one that holds a null
\* element ("array_null"), the first property read of which throws.
Content(kind, rows) == [kind |-> kind, rows |-> rows]

\* A time-tracking report of one row.
ReportTickets ==
    << PivotRow(S_Febrero_2025, S_Pierre_Mundo_Imperial,
                << Int2Num(2), Str(S_1_00_00), Str(S_0_30_00), Str(S_50_00) >>) >>

\* The same report with the month of its first row null.
ReportNullMonth ==
    << Put(ReportTickets[1], S_Mes_Anio, Null) >>

\* A report with neither privileged column and no known metric.
ReportPlain ==
    << << [k |-> S_insertId, v |-> Int2Num(0)],
          [k |-> S_affectedRows, v |-> Int2Num(1)] >> >>

Reports == { ReportTickets, ReportNullMonth, ReportPlain }

Contents ==
    { Content(k, << >>) : k \in { "unreadable", "invalid", "value", "array", "array_null" } }
        \cup { Content("array", r) : r \in Reports }

\* The directory listings: files of distinct names.
Listings ==
    { l \in UNION { [1..n -> [name : DirFileNames, content : Contents]] : n \in 0..MaxFiles } :
        \A i, j \in 1..Len(l) : i # j => l[i].name # l[j].name }

\* The iteration on this content leaves the try block by an exception.
Throws(content) == content.kind \in { "unreadable", "invalid", "array_null" }

\* The iteration on this content builds a sheet.
BuildsSheet(content) == content.kind = "array" /\ content.rows # << >>

\* workbook.SheetNames
SheetNames(wb) == [i \in 1..Len(wb) |-> wb[i].name]

\* The state on entering the loop over jsonFiles.
InitLoop ==
    /\ idx = 0
    /\ workbook = << >>
    /\ hasSheets = FALSE
    /\ errors = << >>
    /\ written = << >>
    /\ data = << >>
    /\ accumulated = << >>
    /\ pivotData = << >>
    /\ pc = "loop"
    /\ NoCall

InitDir ==
    /\ jsonFiles \in Listings
    /\ InitLoop

\* ProcessFile, were the try block around the loop: an exception ends it.
ProcessFileAbort ==
    /\ pc = "loop"
    /\ idx < Len(jsonFiles)
    /\ LET file == jsonFiles[idx + 1]
           sheetName == cleanSheetName(file.name)
           filled == filledOrSame(file.content.rows)
           acc == aggregateData(file.name, filled)
           pivot == generatePivotTables(filled)
           finalSheetName ==
               resolveSheetName(SheetNames(workbook), sheetName, sheetName, 1)
       IN  IF Throws(file.content)
           THEN /\ errors' = Append(errors, file.name)
                /\ idx' = Len(jsonFiles)
                /\ UNCHANGED << workbook, hasSheets, data, accumulated, pivotData >>
           ELSE IF ~BuildsSheet(file.content)
           THEN /\ idx' = idx + 1
                /\ UNCHANGED << workbook, hasSheets, errors, data, accumulated, pivotData >>
           ELSE /\ data' = filled
                /\ accumulated' = acc
                /\ pivotData' = pivot
                /\ workbook' = Append(workbook, [name |-> finalSheetName,
                                                 aoa |-> sheetAOA(filled, acc, pivot)])
                /\ hasSheets' = TRUE
                /\ idx' = idx + 1
                /\ UNCHANGED errors
    /\ UNCHANGED << jsonFiles, written, pc, args, result >>

\* One iteration of the loop over jsonFiles: the whole try/catch.
ProcessFile ==
    /\ pc = "loop"
    /\ idx < Len(jsonFiles)
    /\ LET file == jsonFiles[idx + 1]
           sheetName == cleanSheetName(file.name)
           filled == filledOrSame(file.content.rows)
           acc == aggregateData(file.name, filled)
           pivot == generatePivotTables(filled)
           finalSheetName ==
               resolveSheetName(SheetNames(workbook), sheetName, sheetName, 1)
       IN  IF Throws(file.content)
           THEN /\ errors' = Append(errors, file.name)
                /\ UNCHANGED << workbook, hasSheets, data, accumulated, pivotData >>
           ELSE IF ~BuildsSheet(file.content)
           THEN UNCHANGED << workbook, hasSheets, errors, data, accumulated, pivotData >>
           ELSE /\ data' = filled
                /\ accumulated' = acc
                /\ pivotData' = pivot
                /\ workbook' = Append(workbook, [name |-> finalSheetName,
                                                 aoa |-> sheetAOA(filled, acc, pivot)])
                /\ hasSheets' = TRUE
                /\ UNCHANGED errors
    /\ idx' = idx + 1
    /\ UNCHANGED << jsonFiles, written, pc, args, result >>

\* Finish, were the workbook written whether or not it has sheets.
FinishAlways ==
    /\ pc = "loop"
    /\ idx = Len(jsonFiles)
    /\ written' = Append(written, SheetNames(workbook))
    /\ pc' = "done"
    /\ UNCHANGED << jsonFiles, idx, workbook, hasSheets, errors,
                    data, accumulated, pivotData, args, result >>

\* After the loop: the workbook is written when it has sheets.  A directory
\* without .json files returns before a workbook is made.
Finish ==
    /\ pc = "loop"
    /\ idx = Len(jsonFiles)
    /\ written' = IF hasSheets THEN Append(written, SheetNames(workbook)) ELSE written
    /\ pc' = "done"
    /\ UNCHANGED << jsonFiles, idx, workbook, hasSheets, errors,
                    data, accumulated, pivotData, args, result >>

NextDir == ProcessFile \/ Finish

SpecDir == InitDir /\ [][NextDir]_vars

\* The report of the latest iteration, once it has built a sheet.
LatestBuilt == idx > 0 /\ BuildsSheet(jsonFiles[idx].content)

\* C2: in the per-report pipeline the series handed to the aggregator and
\* to the pivot builder is the gap-filled series whenever the first row of
\* the report has both Mes_Anio and Nombre_Unidad, whatever their values,
\* and is the input series unchanged only when the first row lacks one.
C2_FilledWheneverColumnsPresent ==
    LatestBuilt =>
        LET file == jsonFiles[idx]
            rows == file.content.rows
            series == IF HasBothColumns(rows) THEN fillMissingMonths(rows) ELSE rows
        IN  /\ data = series
            /\ accumulated = aggregateData(file.name, series)
            /\ pivotData = generatePivotTables(series)

\* C8: an iteration that fails appends the file name to the reported errors,
\* leaves the workbook and its flag as they were, and moves the loop to the
\* next file; no step changes a sheet already added; the loop ends only
\* after the last file.
C8_FailureIsIsolated ==
    [][ /\ (pc = "loop" /\ idx < Len(jsonFiles) /\ Throws(jsonFiles[idx + 1].content)) =>
            /\ errors' = Append(errors, jsonFiles[idx + 1].name)
            /\ workbook' = workbook
            /\ hasSheets' = hasSheets
            /\ idx' = idx + 1
            /\ pc' = "loop"
        /\ Len(workbook') >= Len(workbook)
        /\ \A i \in 1..Len(workbook) : workbook'[i] = workbook[i]
        /\ (pc = "loop" /\ pc' = "done") => idx = Len(jsonFiles)
      ]_vars

\* The first file of a directory has failed and the second has got its sheet.
C8_Witness ==
    /\ Len(jsonFiles) = 2
    /\ idx = 2
    /\ Throws(jsonFiles[1].content)
    /\ BuildsSheet(jsonFiles[2].content)
    /\ errors = << jsonFiles[1].name >>
    /\ Len(workbook) = 1

----------------------------------------------------------------------------
(* processDirectoryToWorkbook on directories of colliding file names *)

MaxColliding == 101

MaxNamed == 3

S_datos_generales_unidad_departamento_ == << "d", "a", "t", "o", "s", "_", "g", "e", "n", "e", "r", "a", "l", "e", "s", "_", "u", "n", "i", "d", "a", "d", "_", "d", "e", "p", "a", "r", "t", "a", "m", "e", "n", "t", "o", "_" >>

\* The i-th file of a directory whose names agree on their first 31
\* characters.
LongName(i) == S_datos_generales_unidad_departamento_ \o IntToStr(i) \o S_dot_json

PlainFile(name) == [name |-> name, content |-> Content("array", ReportPlain)]

NameListings ==
    { [i \in 1..MaxColliding |-> PlainFile(LongName(i))] }
        \cup { [i \in 1..Len(l) |-> PlainFile(l[i])] :
                l \in { s \in UNION { [1..n -> DirFileNames] : n \in 1..MaxNamed } :
                          \A i, j \in 1..Len(s) : i # j => s[i] # s[j] } }

InitNames ==
    /\ jsonFiles \in NameListings
    /\ InitLoop

SpecNames == InitNames /\ [][NextDir]_vars

\* How many of the first i - 1 files have the sanitized name of the i-th.
EarlierOccurrences(i) ==
    Cardinality({ j \in 1..(i - 1) :
                    cleanSheetName(jsonFiles[j].name) = cleanSheetName(jsonFiles[i].name) })

\* C7: the first report of a sanitized base name gets the base name, its
\* second occurrence the truncated base with _1, the third with _2, and so
\* on; no sheet name is longer than 31 characters.
C7_SuffixedNamesFit ==
    (Len(workbook) = idx) =>
        \A i \in 1..Len(workbook) :
            LET base == cleanSheetName(jsonFiles[i].name)
                k == EarlierOccurrences(i)
            IN  /\ workbook[i].name =
                       IF k = 0 THEN base
                       ELSE Substring0(base, MAX_SHEET_NAME_LENGTH - 3)
                                \o << "_" >> \o IntToStr(k)
                /\ Len(workbook[i].name) <= MAX_SHEET_NAME_LENGTH

----------------------------------------------------------------------------
(* The title rows of generatePivotTables *)

\* headerRow["Metric"], which the loop computes for each metric and pushes
\* nowhere: the metric with every underscore a space, upper-cased.
headerRowMetric(metric) ==
    ToUpperCase([i \in 1..Len(metric) |-> IF metric[i] = "_" THEN " " ELSE metric[i]])

\* The texts of the title rows of a sequence of pivot rows, in order.
TitleTexts(pivot) ==
    LET titles == SelectSeq(pivot, LAMBDA row : HasOwn(row, S_pivot_title))
    IN  [i \in 1..Len(titles) |-> Get(titles[i], S_pivot_title)]

\* C11: for every detected metric, the title row generatePivotTables emits
\* carries the readable label of the metric: its name with every underscore
\* replaced by a space, upper-cased.
C11_TitleCarriesLabel ==
    (pc = "returned" /\ args.data # << >>) =>
        LET metrics == metrics_to_pivot(args.data[1])
            titles == TitleTexts(result)
        IN  /\ Len(titles) = Len(metrics)
            /\ \A i \in 1..Len(metrics) :
                  /\ titles[i].t = "string"
                  /\ Includes(titles[i].s, headerRowMetric(metrics[i]))

----------------------------------------------------------------------------
(* processDirectoryToWorkbook on one report: the grid *)

MaxGridRows == 2

\* A row with a label column and no known metric, its unit null.
LabelRow ==
    << [k |-> S_Mes_Anio, v |-> Str(S_Febrero_2025)],
       [k |-> S_Nombre_Unidad, v |-> Null],
       [k |-> S_Departamento, v |-> Str(S_abc)] >>

\* The reports: time-tracking series of two units, one month outside the
\* calendar; counting series whose unit is null; series without a metric.
GridReports ==
    SeqsUpTo({ PivotRow(mo, u, m) :
                 mo \in { S_Febrero_2025, S_Enero_2024 },
                 u \in { S_Palacio_Mundo_Imperial, S_Pierre_Mundo_Imperial },
                 m \in { << Int2Num(2), Str(S_1_00_00), Str(S_0_30_00), Str(S_50_00) >>,
                         << Int2Num(0), Null, Null, Null >> } },
             MaxGridRows)
    \cup SeqsUpTo({ CountRow(Null, Str(S_abc), c) : c \in { Str(S_2), Int2Num(1) } },
                  MaxGridRows)
    \cup SeqsUpTo({ ReportPlain[1], LabelRow }, MaxGridRows)

GridListings ==
    { << [name |-> f, content |-> Content("array", r)] >> :
        f \in { F_tickets_general, F_a_question_b }, r \in GridReports \ { << >> } }

InitGrid ==
    /\ jsonFiles \in GridListings
    /\ InitLoop

SpecGrid == InitGrid /\ [][NextDir]_vars

\* The grid of the latest sheet.
LatestGrid == workbook[Len(workbook)].aoa

\* The index of the last row of the accumulation block of the latest grid:
\* of the original block when there is no accumulation row.
AccEnd ==
    Len(data) + 1 + (IF Len(accumulated) > 0 THEN 3 + Len(accumulated) ELSE 0)

C13_PlainGrid ==
    (LatestBuilt /\ accumulated = << >> /\ pivotData = << >>) =>
        LET keys == Keys(data[1])
        IN  /\ Len(LatestGrid) = 1 + Len(data)
            /\ LatestGrid[1] = [i \in 1..Len(keys) |-> Str(keys[i])]
            /\ \A i \in 1..Len(data) :
                  /\ Len(LatestGrid[i + 1]) = Len(keys)
                  /\ \A j \in 1..Len(keys) :
                        LatestGrid[i + 1][j] = Get(data[i], keys[j])

\* The grid of a report of two rows of different columns, no unit set and no
\* metric among them.
C13_Witness ==
    /\ LatestBuilt
    /\ jsonFiles[1].content.rows = << LabelRow, ReportPlain[1] >>
    /\ accumulated = << >>
    /\ pivotData = << >>
    /\ Len(LatestGrid) = 3

----------------------------------------------------------------------------
(* formatDuration, then parseDuration of its text *)

MaxSeconds == 7300

\* Whole seconds: every amount up to two hours and more, and amounts of
\* a day, of more than a day, of a hundred hours and of thousands of hours.
CodecSeconds == (0..MaxSeconds) \cup { 86399, 86400, 90061, 360000, 10679753 }

InitCodec ==
    /\ NoDirectory
    /\ pc = "ready"
    /\ args \in { [totalSeconds |-> Int2Num(s)] : s \in CodecSeconds }
    /\ result = << >>

CallFormatDuration ==
    /\ pc = "ready"
    /\ result' = Str(formatDuration(args.totalSeconds.n))
    /\ pc' = "formatted"
    /\ UNCHANGED << args, dirVars >>

CallParseDuration ==
    /\ pc = "formatted"
    /\ result' = Num(parseDuration(result))
    /\ pc' = "returned"
    /\ UNCHANGED << args, dirVars >>

NextCodec == CallFormatDuration \/ CallParseDuration

SpecCodec == InitCodec /\ [][NextCodec]_vars

\* C14: for every whole number of seconds s >= 0, parseDuration of the text
\* formatDuration gives for s is s.
C14_RoundTrip ==
    pc = "returned" => result = args.totalSeconds

\* The round trip of 2966:35:53, a duration of thousands of hours.
C14_Witness ==
    /\ pc = "returned"
    /\ args.totalSeconds = Int2Num(10679753)
    /\ result = Int2Num(10679753)

----------------------------------------------------------------------------
(* The zero cases of processTicketsGeneral *)

\* C15: under Tickets-General, a group whose ticket count is 0 gets the
\* averages "0:00:00" and the percentage "0.00"; a group whose ticket count
\* is above 0 and whose productive seconds are 0 gets the percentage "0.00".
C15_NoDivisionByZero ==
    (pc = "returned" /\ args.filename \in TicketsFiles) =>
        \A u \in UnitValues(args.data) :
            LET rows == RowsOfUnit(args.data, u)
                n == Len(rows)
                count == SumSeq([i \in 1..n |->
                            NumberOr0(Get(rows[i], S_Cantidad_Tickets))])
                prod == SumSeq([i \in 1..n |->
                            parseDuration(Get(rows[i], S_Total_Tiempo_Productivo))])
            IN  NamedUnit(u) =>
                   /\ ResultRowsOf(u) # { }
                   /\ \A i \in ResultRowsOf(u) :
                         /\ count = 0 =>
                               /\ Get(result[i], S_Promedio_Tiempo_Productivo)
                                     = Str(S_0_00_00)
                               /\ Get(result[i], S_Promedio_Tiempo_Estimado)
                                     = Str(S_0_00_00)
                               /\ Get(result[i], S_Porcentaje_Cumplimiento)
                                     = Str(S_0_00)
                         /\ (count > 0 /\ prod = 0) =>
                               Get(result[i], S_Porcentaje_Cumplimiento) = Str(S_0_00)

\* A call on a group without tickets and a group with tickets and no
\* productive time has returned.
C15_Witness ==
    /\ pc = "returned"
    /\ args.filename = F_tickets_general
    /\ args.data = << TicketRow(S_Pierre_Mundo_Imperial, 0, S_1_00_00, S_0_50_00),
                      TicketRow(S_Palacio_Mundo_Imperial, 3, S_00_00_00, S_0_20_00) >>
    /\ Len(result) = 2
    /\ Get(result[1], S_Promedio_Tiempo_Productivo) = Str(S_0_00_00)
    /\ Get(result[2], S_Porcentaje_Cumplimiento) = Str(S_0_00)
    /\ Get(result[2], S_Cantidad_Tickets) = Int2Num(3)

----------------------------------------------------------------------------
(* The rows of fillMissingMonths: kept, synthesized, dropped *)

\* Rows a and b have the same unit and the same month.
SamePair(a, b) ==
    /\ Get(a, S_Nombre_Unidad) = Get(b, S_Nombre_Unidad)
    /\ Get(a, S_Mes_Anio) = Get(b, S_Mes_Anio)

\* The index of the first row of the series with the unit and month of row i.
FirstOfPair(rows, i) ==
    CHOOSE f \in 1..i :
        /\ SamePair(rows[f], rows[i])
        /\ \A j \in 1..(f - 1) : ~SamePair(rows[j], rows[i])

MaxExtraKeys == 2

S_Cantidad_Tiempo_Porcentaje ==
    << "C", "a", "n", "t", "i", "d", "a", "d", "_", "T", "i", "e", "m", "p", "o", "_", "P", "o", "r", "c", "e", "n", "t", "a", "j", "e" >>

S_Tiempo_Porcentaje == << "T", "i", "e", "m", "p", "o", "_", "P", "o", "r", "c", "e", "n", "t", "a", "j", "e" >>

\* Column names of every class of default, among them names that match
\* more than one class.
ExtraKeys ==
    { S_Cantidad_Tickets, S_Total_Tickets_TI, S_insertId, S_affectedRows,
      S_Total_Tiempo_Productivo, S_Porcentaje_Cumplimiento, S_Departamento,
      S_Cantidad_Tiempo_Porcentaje, S_Tiempo_Porcentaje }

\* The one-row series: the two privileged columns, then distinct columns.
KeyInputs ==
    { << << [k |-> S_Mes_Anio, v |-> Str(mo)],
            [k |-> S_Nombre_Unidad, v |-> Str(S_Pierre_Mundo_Imperial)] >>
         \o [i \in 1..Len(ks) |-> [k |-> ks[i], v |-> Int2Num(7)]] >> :
        mo \in { S_Marzo_2025, S_Enero_2024 },
        ks \in { s \in SeqsUpTo(ExtraKeys, MaxExtraKeys) :
                   \A i, j \in 1..Len(s) : i # j => s[i] # s[j] } }

InitZero ==
    /\ NoDirectory
    /\ pc = "ready"
    /\ args \in { [data |-> d] : d \in KeyInputs }
    /\ result = << >>

SpecZero == InitZero /\ [][NextFill]_vars

\* The default of a column of a synthesized row, by the name of the column.
DefaultOf(key) ==
    IF \/ StartsWith(key, S_Cantidad) \/ StartsWith(key, S_Total_Tickets)
       \/ key \in { S_insertId, S_affectedRows }
    THEN Int2Num(0)
    ELSE IF Includes(key, S_Tiempo) THEN Str(S_00_00_00)
    ELSE IF Includes(key, S_Porcentaje) THEN Str(S_0_00)
    ELSE Int2Num(0)

\* C17: the row synthesized for a unit and a canonical month that the input
\* lacks has the columns of the input's first row, in their order, with
\* Mes_Anio the month, Nombre_Unidad the unit, and every other column its
\* default by name: 0 for the counting prefixes and the two bookkeeping
\* names, else "00:00:00" for Tiempo, else "0.00" for Porcentaje, else 0.
C17_ZeroRowDefaults ==
    (pc = "returned" /\ HasBothColumns(args.data)) =>
        \A u \in UnitValues(args.data) : \A m \in 1..Len(MONTHS_2025) :
            LET keys == Keys(args.data[1])
                present == \E i \in 1..Len(args.data) :
                              /\ Get(args.data[i], S_Nombre_Unidad) = u
                              /\ Get(args.data[i], S_Mes_Anio) = Str(MONTHS_2025[m])
                rowsOfPair == { k \in 1..Len(result) :
                                  /\ Get(result[k], S_Nombre_Unidad) = u
                                  /\ Get(result[k], S_Mes_Anio) = Str(MONTHS_2025[m]) }
            IN  ~present =>
                   /\ Cardinality(rowsOfPair) = 1
                   /\ \A k \in rowsOfPair :
                         /\ Keys(result[k]) = keys
                         /\ \A j \in 1..Len(keys) :
                               result[k][j].v =
                                  IF keys[j] = S_Mes_Anio THEN Str(MONTHS_2025[m])
                                  ELSE IF keys[j] = S_Nombre_Unidad THEN u
                                  ELSE DefaultOf(keys[j])

\* A call on a row with a column that has a counting prefix and names a
\* duration, and a column that names a duration and a percentage, has
\* returned: the zero row of January holds 0 for the one and "00:00:00" for
\* the other.
C17_Witness ==
    /\ pc = "returned"
    /\ Len(args.data) = 1
    /\ Keys(args.data[1]) = << S_Mes_Anio, S_Nombre_Unidad,
                               S_Cantidad_Tiempo_Porcentaje, S_Tiempo_Porcentaje >>
    /\ Get(args.data[1], S_Mes_Anio) = Str(S_Marzo_2025)
    /\ Len(result) = 12
    /\ Get(result[1], S_Mes_Anio) = Str(S_Enero_2025)
    /\ Get(result[1], S_Cantidad_Tiempo_Porcentaje) = Int2Num(0)
    /\ Get(result[1], S_Tiempo_Porcentaje) = Str(S_00_00_00)

----------------------------------------------------------------------------
(* The sheet names of one workbook *)

\* C18: the sheet names of the workbook are pairwise distinct after any
\* number of reports, also when a suffixed name is the sanitized name of
\* another report.
C18_DistinctSheetNames ==
    \A i, j \in 1..Len(workbook) :
        i # j => workbook[i].name # workbook[j].name

\* Three reports are in the workbook: a_b_1.json under its own name, then
\* two reports of the sanitized name a_b, the second of which found a_b_1
\* taken.
C18_Witness ==
    /\ Len(jsonFiles) = 3
    /\ jsonFiles[1].name = F_a_b_1
    /\ SheetNames(workbook) = << << "a", "_", "b", "_", "1" >>,
                                 << "a", "_", "b" >>,
                                 << "a", "_", "b", "_", "2" >> >>

----------------------------------------------------------------------------
(* Rows of months outside the calendar in the per-report pipeline *)

\* The report of the latest iteration went through the gap filler.
LatestFilled ==
    /\ LatestBuilt
    /\ Truthy(Get(jsonFiles[idx].content.rows[1], S_Mes_Anio))
    /\ Truthy(Get(jsonFiles[idx].content.rows[1], S_Nombre_Unidad))

\* C19: every row of a gap-filled series has a month of the calendar: it is
\* an input row of such a month or a synthesized row, so that a row of
\* another month reaches neither the original block of the grid, nor the
\* accumulation rows, nor the pivot tables, which are made from the
\* gap-filled series.
C19_OnlyCalendarMonths ==
    LatestFilled =>
        LET file == jsonFiles[idx]
            rows == file.content.rows
            grid == LatestGrid
        IN  /\ \A k \in 1..Len(data) :
                  /\ monthIndex(Get(data[k], S_Mes_Anio)) >= 0
                  /\ \/ \E i \in 1..Len(rows) : rows[i] = data[k]
                     \/ data[k] = zeroRow(Keys(rows[1]), Get(data[k], S_Mes_Anio).s,
                                          Get(data[k], S_Nombre_Unidad))
            /\ accumulated = aggregateData(file.name, data)
            /\ pivotData = generatePivotTables(data)
            /\ grid = sheetAOA(data, accumulated, pivotData)
            /\ \A i \in 1..Len(grid) : \A j \in 1..Len(grid[i]) :
                  grid[i][j] # Str(S_Enero_2024)

\* A report of one unit with 2 tickets in January 2024 and 2 in February
\* 2025 has its sheet: 12 rows, and an accumulation of 2 tickets.
C19_Witness ==
    /\ LatestFilled
    /\ jsonFiles[1].name = F_tickets_general
    /\ jsonFiles[1].content.rows =
          << PivotRow(S_Enero_2024, S_Pierre_Mundo_Imperial,
                 << Int2Num(2), Str(S_1_00_00), Str(S_0_30_00), Str(S_50_00) >>),
             PivotRow(S_Febrero_2025, S_Pierre_Mundo_Imperial,
                 << Int2Num(2), Str(S_1_00_00), Str(S_0_30_00), Str(S_50_00) >>) >>
    /\ Len(data) = 12
    /\ Len(accumulated) = 1
    /\ Get(accumulated[1], S_Cantidad_Tickets) = Int2Num(2)

----------------------------------------------------------------------------
(* The writing of the workbook *)

\* The directories: files of distinct names whose content is of any kind,
\* the report among them one without a privileged column.
WriteListings ==
    { l \in UNION { [1..n -> [name : DirFileNames,
                              content : (Contents \ { Content("array", r) : r \in Reports })
                                           \cup { Content("array", ReportPlain) }]] :
                    n \in 0..MaxFiles } :
        \A i, j \in 1..Len(l) : i # j => l[i].name # l[j].name }

InitWrite ==
    /\ jsonFiles \in WriteListings
    /\ InitLoop

\* The loop is a synchronous for loop whose iterations end, and the write
\* follows it: the function goes on until it returns.
FairSpecWrite == InitWrite /\ [][NextDir]_vars /\ WF_vars(NextDir)

\* C20: the workbook is written if and only if some report of the directory
\* became a sheet; it is written once, with all the sheets, after the last
\* report; and the function comes to its end.
C20_WrittenIffSheets ==
    /\ [](written # << >> =>
            /\ pc = "done"
            /\ idx = Len(jsonFiles)
            /\ written = << SheetNames(workbook) >>
            /\ Len(workbook) > 0)
    /\ [](pc = "done" =>
            (written # << >>
                <=> \E i \in 1..Len(jsonFiles) : BuildsSheet(jsonFiles[i].content)))
    /\ <>(pc = "done")

\* A directory of a failing file and a report has been gone through and
\* its workbook of one sheet written.
C20_Witness ==
    /\ pc = "done"
    /\ Len(jsonFiles) = 2
    /\ Throws(jsonFiles[1].content)
    /\ Len(written) = 1
    /\ Len(written[1]) = 1

----------------------------------------------------------------------------
(* process_queries.js: the sections of the query file *)

WhiteSpace == { " ", "\t", "\r", "\n" }

\* String.prototype.trim
RECURSIVE trim(_)
trim(s) ==
    IF s # << >> /\ s[1] \in WhiteSpace THEN trim(Tail(s))
    ELSE IF s # << >> /\ s[Len(s)] \in WhiteSpace
         THEN trim(SubSeq(s, 1, Len(s) - 1))
    ELSE s

\* fileContent.split(/\r?\n/): the text is cut at every line feed, and a
\* carriage return right before the line feed goes with it.
RECURSIVE splitLines(_)
splitLines(s) ==
    IF \E i \in 1..Len(s) : s[i] = "\n"
    THEN LET i == CHOOSE k \in 1..Len(s) :
                      s[k] = "\n" /\ \A j \in 1..(k - 1) : s[j] # "\n"
             last == IF i > 1 /\ s[i - 1] = "\r" THEN i - 2 ELSE i - 1
         IN  << SubSeq(s, 1, last) >> \o splitLines(SubSeq(s, i + 1, Len(s)))
    ELSE << s >>

\* Array.prototype.join(sep) of an array of strings
RECURSIVE join(_, _)
join(a, sep) ==
    IF a = << >> THEN << >>
    ELSE IF Len(a) = 1 THEN a[1]
    ELSE a[1] \o sep \o join(Tail(a), sep)

\* The rule that ends a title line
TitleRule == [i \in 1..26 |-> "-"]

\* line.trim().endsWith("--------------------------")
isTitleLine(line) == EndsWith(trim(line), TitleRule)

\* line.replace(/--------------------------$/, "").trim(): the rule is taken
\* off the line as it was read, when the line ends with it.
titleOf(line) ==
    trim(IF EndsWith(line, TitleRule)
         THEN SubSeq(line, 1, Len(line) - Len(TitleRule))
         ELSE line)

section(currentTitle, currentSql) ==
    [title |-> currentTitle.s, sql |-> join(currentSql, << "\n" >>)]

\* The body of the loop over the lines, for the line of index i
readLine(st, line) ==
    IF isTitleLine(line)
    THEN [st EXCEPT !.sections = IF Truthy(st.currentTitle)
                                 THEN Append(@, section(st.currentTitle, st.currentSql))
                                 ELSE @,
                    !.currentTitle = Str(titleOf(line)),
                    !.currentSql = << >>]
    ELSE [st EXCEPT !.currentSql = IF Truthy(st.currentTitle)
                                   THEN Append(@, line)
                                   ELSE @]

\* What follows the loop
pushLast(st) ==
    IF Truthy(st.currentTitle) /\ Len(st.currentSql) > 0
    THEN [st EXCEPT !.sections = Append(@, section(st.currentTitle, st.currentSql))]
    ELSE st

MaxLines == 4

L_TitleA == << "A" >> \o TitleRule

L_TitleB == << " ", "B", " " >> \o TitleRule \o << " " >>

L_Rule == TitleRule

L_ShortRule == << "C" >> \o Tail(TitleRule)

L_Select == << "S", "E", "L", "E", "C", "T", " ", "1", ";" >>

L_Empty == << >>

QueryLines == { L_TitleA, L_TitleB, L_Rule, L_ShortRule, L_Select, L_Empty }

\* The files of one to MaxLines lines, whose lines are separated by a line
\* feed or by a carriage return and a line feed; the last line has no end
\* of line after it (a file that ends with one has an empty last line).
QueryFiles ==
    { join(ls, eol) : ls \in SeqsUpTo(QueryLines, MaxLines),
                      eol \in { << "\n" >>, << "\r", "\n" >> } }

InitQueries ==
    /\ NoDirectory
    /\ pc = "ready"
    /\ args \in { [fileContent |-> f] : f \in QueryFiles }
    /\ result = << >>

ReadFile ==
    /\ pc = "ready"
    /\ result' = [lines |-> splitLines(args.fileContent),
                  i |-> 0,
                  sections |-> << >>,
                  currentTitle |-> Null,
                  currentSql |-> << >>]
    /\ pc' = "lines"
    /\ UNCHANGED << args, dirVars >>

ReadLine ==
    /\ pc = "lines"
    /\ result.i < Len(result.lines)
    /\ result' = [readLine(result, result.lines[result.i + 1])
                     EXCEPT !.i = result.i + 1]
    /\ UNCHANGED << pc, args, dirVars >>

PushLast ==
    /\ pc = "lines"
    /\ result.i = Len(result.lines)
    /\ result' = pushLast(result)
    /\ pc' = "parsed"
    /\ UNCHANGED << args, dirVars >>

NextQueries == ReadFile \/ ReadLine \/ PushLast

SpecQueries == InitQueries /\ [][NextQueries]_vars

\* The indices of the title lines, and the k-th of them
TitleLines(lines) == { i \in 1..Len(lines) : isTitleLine(lines[i]) }

NthTitleLine(lines, k) ==
    CHOOSE i \in TitleLines(lines) :
        Cardinality({ j \in TitleLines(lines) : j <= i }) = k

\* The lines between the k-th title line and the next one or the end
BodyLines(lines, k) ==
    LET from == NthTitleLine(lines, k)
        to == IF k < Cardinality(TitleLines(lines))
              THEN NthTitleLine(lines, k + 1) - 1
              ELSE Len(lines)
    IN  SubSeq(lines, from + 1, to)

\* C21: the parser emits, in the order of the file, exactly one section per
\* title line, whose SQL is the lines between that title line and the next
\* title line or the end of the file; no titled section is lost, a last or
\* an intermediate section without body lines included.
C21_OneSectionPerTitleLine ==
    pc = "parsed" =>
        /\ Len(result.sections) = Cardinality(TitleLines(result.lines))
        /\ \A k \in 1..Len(result.sections) :
              result.sections[k].sql = join(BodyLines(result.lines, k), << "\n" >>)

============================================================================
